---- MODULE Spec2Model ----
(***************************************************************************)
(* AppFlow (kihw/aio): a desktop automation daemon.                        *)
(*                                                                         *)
(* Two rule engines live in the repository:                                *)
(*   - the polling engine of appflow/main/core/rule_engine.py, a loop      *)
(*     over rules with triggers and a has_run flag (SpecPoll);             *)
(*   - the condition/priority engine of main/core/rule_engine.py           *)
(*     (Condition, Rule, RuleEngine), modelled as pure evaluation          *)
(*     (SpecCond, SpecRule) and as an engine with a rule set (Spec),       *)
(*     whose rule set is managed call by call (SpecAdmin), which the       *)
(*     TriggerManager of main/core/trigger_manager.py drives from its      *)
(*     scheduler thread (SpecTM), and whose context is read from the       *)
(*     SystemMonitor of main/utils/system_monitor.py (SpecMon).            *)
(* The network rate samplers (SpecNet), the ProcessManager's kill methods  *)
(* (SpecKill), the ActionExecutor behind the engine (SpecExec) and the     *)
(* wiring of AppFlow.initialize (SpecInit) have specifications of their    *)
(* own; SpecIso is the engine with an executor that may raise.             *)
(* The threads behind start() and stop() are followed for the              *)
(* TriggerManager alone (SpecSched) and for AppFlow as a whole (SpecFlow,  *)
(* SpecFlowFair); the GET /api/config handler (SpecConfig), the process    *)
(* watches of the SystemMonitor (SpecWatch), its metric callbacks         *)
(* (SpecCallback) and the context providers of the RuleEngine              *)
(* (SpecContext) stand alone.                                              *)
(***************************************************************************)
EXTENDS Integers, Sequences, FiniteSets, TLC

VARIABLES
    \* ---- polling engine (appflow/main/core/rule_engine.py) ----
    prules,      \* RuleEngine.rules: sequence of [triggers, actions]
    has_run,     \* Rule.has_run, one flag per rule
    ppc,         \* position of run(): "check", "sleep", "crashed", "stopped"
    pidx,        \* index of the rule the for loop is at
    cycle,       \* number of completed poll cycles
    minute,      \* wall clock, truncated to the minute
    procs,       \* names of the running processes (psutil.process_iter)
    denied,      \* names of processes whose terminate() raises AccessDenied
    runs,        \* per rule, when its action sequence ran: [cycle, minute]
    lastCheck,   \* the last poll of a rule: [rule, procs, minute, result, ran]
    \* ---- evaluation of one rule (main/core/rule_engine.py) ----
    evalIn,      \* the inputs: [rule, context]
    evalOut,     \* the results of Rule.evaluate and of each Condition.evaluate
    \* ---- RuleEngine (main/core/rule_engine.py) ----
    rules,            \* RuleEngine.rules, in insertion order
    action_executor,  \* whether an executor has been set
    metrics,          \* what each context provider returns now
    call,             \* the evaluate_all_rules or execute_matched_rules call in progress
    api,              \* the rule-set management call that returned last
    \* ---- TriggerManager (main/core/trigger_manager.py) ----
    running,     \* TriggerManager._running
    tm,          \* the scheduler thread: where it is and what it has done
    \* ---- SystemMonitor (main/utils/system_monitor.py) ----
    sm_metrics,  \* SystemMonitor._metrics: per metric, the update that wrote it
    lock,        \* who holds SystemMonitor._metrics_lock
    updater,     \* the monitoring thread inside _update_metrics
    reader,      \* a get_current_context call in progress
    cpu_history, \* SystemMonitor._metrics['cpu']['history']
    \* ---- network rate samplers (system_monitor.py, utils/system.py) ----
    net,         \* the baselines the samplers keep and what the last call saw
    \* ---- ProcessManager (main/utils/process_manager.py) ----
    pm,          \* a kill_process_by_name / kill_process_by_pid call
    \* ---- ActionExecutor (main/core/action_executor.py) ----
    exe,         \* the execute() call that returned last
    \* ---- AppFlow (main/appflow.py) ----
    app,         \* AppFlow.initialize: where it is and what it returned
    \* ---- threads of start() and stop() (trigger_manager.py, appflow.py) ----
    sched,       \* TriggerManager: _running, the scheduler threads, a stop() in progress
    flow,        \* AppFlow: running, the other background threads, the call in progress
    \* ---- Flask API (main/api/flask_server.py) ----
    srv,         \* AppFlow.config as the API sees it, and the last response
    \* ---- SystemMonitor watches and callbacks (main/utils/system_monitor.py) ----
    watch,       \* _watched_processes and what the last check did
    cbk          \* _metric_callbacks and what the last update invoked

pollVars == <<prules, has_run, ppc, pidx, cycle, minute, procs, denied, runs, lastCheck>>

evalVars == <<evalIn, evalOut>>

engVars == <<rules, action_executor, metrics, call>>

apiVars == <<api>>

tmVars == <<running, tm>>

monVars == <<sm_metrics, lock, updater, reader, cpu_history>>

netVars == <<net>>

pmVars == <<pm>>

exeVars == <<exe>>

appVars == <<app>>

svcVars == <<sched, flow, srv, watch, cbk>>

\* The components that stand alone.
restVars == <<netVars, pmVars, exeVars, appVars, svcVars>>

vars == <<pollVars, evalVars, engVars, apiVars, tmVars, monVars, restVars>>

\* What each component leaves alone: the variables of the others.
notPoll == <<evalVars, engVars, apiVars, tmVars, monVars, restVars>>
notEval == <<pollVars, engVars, apiVars, tmVars, monVars, restVars>>
notEng == <<pollVars, evalVars, apiVars, tmVars, monVars, restVars>>
notAdmin == <<pollVars, evalVars, tmVars, monVars, restVars>>
notTM == <<pollVars, evalVars, apiVars, monVars, restVars>>
notMon == <<pollVars, evalVars, engVars, apiVars, tmVars, restVars>>
notNet == <<pollVars, evalVars, engVars, apiVars, tmVars, monVars, pmVars, exeVars, appVars, svcVars>>
notKill == <<pollVars, evalVars, engVars, apiVars, tmVars, monVars, netVars, exeVars, appVars, svcVars>>
notExec == <<pollVars, evalVars, apiVars, tmVars, monVars, netVars, pmVars, appVars, svcVars>>
notSvc == <<pollVars, evalVars, engVars, apiVars, tmVars, monVars, netVars, pmVars, exeVars, appVars>>
notInit == <<pollVars, evalVars, apiVars, tmVars, monVars, netVars, pmVars, exeVars, svcVars>>

\* A component that is not part of the specification at hand stays as
\* constructed: the polling engine with no rules, nothing under evaluation.
PollIdle ==
    /\ prules = <<>> /\ has_run = <<>> /\ ppc = "stopped" /\ pidx = 1
    /\ cycle = 0 /\ minute = 0 /\ procs = {} /\ denied = {} /\ runs = <<>>
    /\ lastCheck = [rule |-> 0, procs |-> {}, minute |-> 0, result |-> FALSE, ran |-> FALSE]

NoBefore == [i |-> 0, rule |-> "none", cond |-> "none"]

NoEval == [done |-> FALSE, rule |-> "none", conds |-> <<>>, before |-> NoBefore]

EvalIdle == evalIn = <<>> /\ evalOut = NoEval

\* No call in progress.  A call keeps the rule set it evaluated (evaluated),
\* the context it built, the matched rules, the positions of its two loops,
\* its counter, the executor invocations it made (log), what the executor
\* returned for each (results) and the rules whose dispatch raised (raised).
NoCall == [pc |-> "idle", evaluated |-> <<>>, context |-> <<>>, matched |-> <<>>,
           mi |-> 1, ai |-> 1, executed_count |-> 0, log |-> <<>>, results |-> <<>>,
           raised |-> <<>>]

EngIdle ==
    /\ rules = <<>> /\ action_executor = FALSE /\ metrics = <<>>
    /\ call = NoCall

\* No management call has returned yet.
NoApi == [op |-> "none"]

ApiIdle == api = NoApi

\* The scheduler thread has not been started.  due: the jobs run_pending has
\* still to run; ret: where the thread goes on after the call it is in;
\* custom, timed: whether a custom trigger, a time trigger is registered;
\* sys, sys_calls: how far the system check of this wake-up got and how many
\* execute_matched_rules calls it made.
NoTM == [pc |-> "off", due |-> {}, ret |-> "none", wakes |-> 0,
         custom |-> FALSE, timed |-> FALSE, sys |-> "none", sys_calls |-> 0]

TMIdle == running = FALSE /\ tm = NoTM

NoUpdater == [pc |-> "idle", k |-> 1, n |-> 0]

NoReader == [pc |-> "idle", k |-> 1, context |-> <<>>]

MonIdle ==
    /\ sm_metrics = <<>> /\ lock = "free"
    /\ updater = NoUpdater /\ reader = NoReader
    /\ cpu_history = <<>>

\* No sampler has been called, no kill method, no execute(), and
\* AppFlow.initialize has not run.
NoNet == [impl |-> "none"]

NoPM == [pc |-> "idle"]

NoExe == [op |-> "none"]

NoApp == [pc |-> "new"]

\* No start() or stop() has been called, no request served, nothing watched
\* and no callback registered.
NoSched == [pc |-> "idle"]

NoFlow == [pc |-> "new"]

NoSrv == [op |-> "none"]

NoWatch == [op |-> "none"]

NoCbk == [op |-> "none"]

SvcIdle == sched = NoSched /\ flow = NoFlow /\ srv = NoSrv /\ watch = NoWatch /\ cbk = NoCbk

RestIdle == net = NoNet /\ pm = NoPM /\ exe = NoExe /\ app = NoApp /\ SvcIdle

---------------------------------------------------------------------------
(* Bounds of the model *)

MaxCycles == 2
MaxMinute == 2
MaxTriggers == 2
MaxConds == 2
MaxRules == 3
MaxWakes == 2
MaxUpdates == 2
MaxSamples == 62
MaxClock == 3
MaxProcs == 2
MaxThreads == 3
MaxRequests == 3
MaxCallbacks == 2

---------------------------------------------------------------------------
(***************************************************************************)
(* The polling engine.                                                     *)
(***************************************************************************)

ProcNames == {"a", "b"}

\* A trigger is a mapping; the code looks at its keys.  The at_time trigger
\* of the model names minute 1 of the wall clock, which starts at minute 0.
TriggerPool ==
    { [app_start |-> "a"], [app_exit |-> "a"], [app_exit |-> "b"],
      [app_start |-> "a", app_exit |-> "b"], [at_time |-> 1] }

RECURSIVE SeqsUpTo(_, _)
SeqsUpTo(S, n) ==
    IF n = 0 THEN { <<>> }
    ELSE LET shorter == SeqsUpTo(S, n - 1)
         IN  shorter \cup { Append(s, x) : s \in shorter, x \in S }

TriggerLists == SeqsUpTo(TriggerPool, MaxTriggers)

\* The trigger lists of the rules the polling loop is run on.
LoopTriggerLists ==
    { <<>>,
      << [app_start |-> "a"] >>,
      << [app_exit |-> "a"] >>,
      << [at_time |-> 1] >>,
      << [app_start |-> "a"], [app_exit |-> "b"] >> }

ActionLists ==
    { << [launch |-> "a"] >>,
      << [kill |-> "a"], [wait |-> 1], [launch |-> "b"] >> }

\* Rule.__init__
PollRule(triggers, actions) == [triggers |-> triggers, actions |-> actions]

\* Rule sets: a rule under study, alone or followed by a second rule.
OtherRules ==
    { PollRule(<<>>, << [kill |-> "a"] >>),
      PollRule(<< [app_exit |-> "a"] >>, << [launch |-> "a"] >>) }

PollRuleSets ==
    LET first == { PollRule(t, a) : t \in LoopTriggerLists, a \in ActionLists }
    IN  { <<r>> : r \in first } \cup { <<r, o>> : r \in first, o \in OtherRules }

\* utils/system.py is_process_running
is_process_running(name, ps) == \E p \in ps : p = name

\* Rule.check_triggers: the loop over the triggers, from index k on.
RECURSIVE check_from(_, _, _)
check_from(triggers, ps, k) ==
    IF k > Len(triggers) THEN FALSE
    ELSE LET trig == triggers[k]
         IN  IF "app_start" \in DOMAIN trig /\ is_process_running(trig.app_start, ps)
                 THEN TRUE
             ELSE IF "app_exit" \in DOMAIN trig /\ ~is_process_running(trig.app_exit, ps)
                 THEN TRUE
             ELSE check_from(triggers, ps, k + 1)

\* A check_triggers that wants every trigger satisfied instead of any.
RECURSIVE check_all_from(_, _, _)
check_all_from(triggers, ps, k) ==
    IF k > Len(triggers) THEN TRUE
    ELSE LET trig == triggers[k]
         IN  /\ \/ "app_start" \in DOMAIN trig /\ is_process_running(trig.app_start, ps)
                \/ "app_exit" \in DOMAIN trig /\ ~is_process_running(trig.app_exit, ps)
             /\ check_all_from(triggers, ps, k + 1)

check_triggers_conjunctive(rule, ran, ps) ==
    IF Len(rule.triggers) = 0 THEN ~ran
    ELSE check_all_from(rule.triggers, ps, 1)

\* Rule.check_triggers
check_triggers(rule, ran, ps) ==
    IF Len(rule.triggers) = 0 THEN ~ran
    ELSE check_from(rule.triggers, ps, 1)

\* Rule.execute, the loop over the actions from index k on.  The result is
\* the process list afterwards, whether an action raised, and whether a
\* wait action slept.
RECURSIVE execute_from(_, _, _, _, _)
execute_from(actions, ps, den, k, slept) ==
    IF k > Len(actions) THEN [procs |-> ps, raised |-> FALSE, slept |-> slept]
    ELSE LET action == actions[k]
         IN  IF "launch" \in DOMAIN action
                 THEN execute_from(actions, ps \cup {action.launch}, den, k + 1, slept)
             ELSE IF "kill" \in DOMAIN action
                 THEN IF action.kill \in ps /\ action.kill \in den
                          THEN [procs |-> ps, raised |-> TRUE, slept |-> slept]
                      ELSE execute_from(actions, ps \ {action.kill}, den, k + 1, slept)
             ELSE IF "wait" \in DOMAIN action
                 THEN execute_from(actions, ps, den, k + 1, TRUE)
             ELSE execute_from(actions, ps, den, k + 1, slept)

\* An execute that never sets has_run.
execute_forgets_has_run(rule, ran, ps, den) ==
    IF ran THEN [procs |-> ps, raised |-> FALSE, slept |-> FALSE,
                 has_run |-> TRUE, done |-> FALSE]
    ELSE LET r == execute_from(rule.actions, ps, den, 1, FALSE)
         IN  [procs |-> r.procs, raised |-> r.raised, slept |-> r.slept,
              has_run |-> FALSE, done |-> ~r.raised]

\* Rule.execute: nothing when has_run is set; otherwise the actions in
\* order and then has_run = True (not reached when an action raises).
execute(rule, ran, ps, den) ==
    IF ran THEN [procs |-> ps, raised |-> FALSE, slept |-> FALSE,
                 has_run |-> TRUE, done |-> FALSE]
    ELSE LET r == execute_from(rule.actions, ps, den, 1, FALSE)
         IN  [procs |-> r.procs, raised |-> r.raised, slept |-> r.slept,
              has_run |-> ~r.raised, done |-> ~r.raised]

NoCheck == [rule |-> 0, procs |-> {}, minute |-> 0, result |-> FALSE, ran |-> FALSE]

PollInit ==
    /\ prules \in PollRuleSets
    /\ has_run = [i \in 1..Len(prules) |-> FALSE]
    /\ ppc = "check"
    /\ pidx = 1
    /\ cycle = 0
    /\ minute = 0
    /\ procs \in SUBSET ProcNames
    /\ denied \in SUBSET {"a"}
    /\ runs = [i \in 1..Len(prules) |-> <<>>]
    /\ lastCheck = NoCheck
    /\ EvalIdle /\ EngIdle /\ ApiIdle /\ TMIdle /\ MonIdle /\ RestIdle

\* One iteration of "for rule in self.rules": check_triggers, then execute.
RunRule ==
    /\ ppc = "check"
    /\ pidx <= Len(prules)
    /\ LET rule == prules[pidx]
           sat  == check_triggers(rule, has_run[pidx], procs)
           ex   == IF sat THEN execute(rule, has_run[pidx], procs, denied)
                   ELSE [procs |-> procs, raised |-> FALSE, slept |-> FALSE,
                         has_run |-> has_run[pidx], done |-> FALSE]
       IN  /\ lastCheck' = [rule |-> pidx, procs |-> procs, minute |-> minute,
                             result |-> sat, ran |-> ex.done]
           /\ runs' = [runs EXCEPT ![pidx] =
                          IF ex.done THEN Append(@, [cycle |-> cycle, minute |-> minute])
                          ELSE @]
           /\ has_run' = [has_run EXCEPT ![pidx] = ex.has_run]
           /\ procs' = ex.procs
           /\ \E adv \in (IF ex.slept /\ minute < MaxMinute THEN {0, 1} ELSE {0}) :
                  minute' = minute + adv
           /\ ppc' = IF ex.raised THEN "crashed"
                     ELSE IF pidx = Len(prules) THEN "sleep" ELSE "check"
           /\ pidx' = IF ex.raised THEN pidx ELSE pidx + 1
    /\ UNCHANGED <<prules, cycle, denied>>

\* time.sleep(self.poll_interval), then the next cycle of "while True".
RunSleep ==
    /\ ppc = "sleep"
    /\ cycle < MaxCycles
    /\ cycle' = cycle + 1
    /\ \E adv \in (IF minute < MaxMinute THEN {0, 1} ELSE {0}) : minute' = minute + adv
    /\ pidx' = 1
    /\ ppc' = "check"
    /\ UNCHANGED <<prules, has_run, procs, denied, runs, lastCheck>>

\* except KeyboardInterrupt: the loop ends.
RunInterrupt ==
    /\ ppc \in {"check", "sleep"}
    /\ ppc' = "stopped"
    /\ UNCHANGED <<prules, has_run, pidx, cycle, minute, procs, denied, runs, lastCheck>>

\* The environment: a process starts or exits on its own.
ProcChange ==
    /\ ppc \in {"check", "sleep"}
    /\ \E n \in ProcNames :
           procs' = IF n \in procs THEN procs \ {n} ELSE procs \cup {n}
    /\ UNCHANGED <<prules, has_run, ppc, pidx, cycle, minute, denied, runs, lastCheck>>

PollNext ==
    \/ RunRule /\ UNCHANGED notPoll
    \/ RunSleep /\ UNCHANGED notPoll
    \/ RunInterrupt /\ UNCHANGED notPoll
    \/ ProcChange /\ UNCHANGED notPoll

SpecPoll == PollInit /\ [][PollNext]_vars

\* check_triggers as a function of the trigger list and the process list:
\* the loop run on one rule, its trigger list drawn from every list of up
\* to MaxTriggers triggers.
TrigInit ==
    /\ prules \in { << PollRule(t, << [launch |-> "a"] >>) >> : t \in TriggerLists }
    /\ has_run = [i \in 1..Len(prules) |-> FALSE]
    /\ ppc = "check"
    /\ pidx = 1
    /\ cycle = 0
    /\ minute = 0
    /\ procs \in SUBSET ProcNames
    /\ denied = {}
    /\ runs = [i \in 1..Len(prules) |-> <<>>]
    /\ lastCheck = NoCheck
    /\ EvalIdle /\ EngIdle /\ ApiIdle /\ TMIdle /\ MonIdle /\ RestIdle

SpecTrig == TrigInit /\ [][PollNext]_vars

---------------------------------------------------------------------------
(* Claims about the polling engine *)

NoTriggers(i) == Len(prules[i].triggers) = 0

\* Rule i has been polled to completion at least once.
Polled(i) == cycle > 0 \/ pidx > i

\* C1: a rule with an empty trigger list has its action sequence executed
\* exactly once, in the first poll cycle: it never runs in a later cycle nor
\* twice, and once the loop has passed it, it has run (in cycle 0).
C1_OneShotOnce ==
    \A i \in 1..Len(prules) :
        NoTriggers(i) =>
            /\ Len(runs[i]) <= 1
            /\ \A k \in 1..Len(runs[i]) : runs[i][k].cycle = 0
            /\ Polled(i) => Len(runs[i]) = 1

\* A trigger-less rule that ran in cycle 0 and was polled in two more cycles.
C1_Witness ==
    \E i \in 1..Len(prules) :
        /\ NoTriggers(i)
        /\ cycle >= 2
        /\ ppc = "sleep"
        /\ Len(runs[i]) = 1

\* The triggers the code knows: app_start(name) holds when a process named
\* name is running, app_exit(name) when none is.
StartExitSatisfied(trig, ps) ==
    \/ "app_start" \in DOMAIN trig /\ trig.app_start \in ps
    \/ "app_exit" \in DOMAIN trig /\ trig.app_exit \notin ps

\* C8: a rule whose only trigger is at_time(t) fires exactly once in a minute
\* equal to t and not at all in any other minute: after a poll of the rule
\* in minute m, it has run once in m if m = t and never in m otherwise.
C8_AtTimeOncePerMinute ==
    \A i \in 1..Len(prules) :
        ( /\ Len(prules[i].triggers) = 1
          /\ "at_time" \in DOMAIN prules[i].triggers[1]
          /\ lastCheck.rule = i
          /\ ppc # "crashed" ) =>
            LET m == lastCheck.minute
                n == Cardinality({ k \in 1..Len(runs[i]) : runs[i][k].minute = m })
            IN  n = IF m = prules[i].triggers[1].at_time THEN 1 ELSE 0

\* C9: a rule with a non-empty trigger list is recurring: in every poll in
\* which one of its triggers is satisfied, its actions are executed.
C9_RecurringRuns ==
    ( /\ lastCheck.rule # 0
      /\ ppc # "crashed" ) =>
        LET rule == prules[lastCheck.rule]
        IN  ( /\ Len(rule.triggers) > 0
              /\ \E k \in 1..Len(rule.triggers) :
                     StartExitSatisfied(rule.triggers[k], lastCheck.procs) )
            => lastCheck.ran

\* C10: for a rule with a non-empty trigger list, check_triggers returns true
\* iff at least one trigger of the list is satisfied, whatever the others are.
C10_AnyTrigger ==
    lastCheck.rule # 0 =>
        LET triggers == prules[lastCheck.rule].triggers
        IN  Len(triggers) > 0 =>
                ( lastCheck.result <=>
                    \E k \in 1..Len(triggers) :
                        StartExitSatisfied(triggers[k], lastCheck.procs) )

\* A check that returned true on a list whose first trigger was not satisfied
\* and whose second one was.
C10_Witness ==
    /\ lastCheck.rule # 0
    /\ LET triggers == prules[lastCheck.rule].triggers
       IN  /\ Len(triggers) = 2
           /\ ~StartExitSatisfied(triggers[1], lastCheck.procs)
           /\ StartExitSatisfied(triggers[2], lastCheck.procs)
           /\ lastCheck.result

\* C12: an exception raised while the triggers of a rule are checked or its
\* actions executed does not end run(): the loop is never left through an
\* exception, so the remaining rules and the later cycles still take place.
C12_LoopSurvives == ppc # "crashed"

---------------------------------------------------------------------------
(***************************************************************************)
(* Values of the rule language.  A context value or a condition's target   *)
(* is a number, None, a string (a sequence of characters) or a mapping     *)
(* (keys in insertion order).  An evaluation ends "true", "false" or       *)
(* "raise" (an exception leaves the function).                             *)
(***************************************************************************)

IntV(n) == [t |-> "int", n |-> n]
NoneV == [t |-> "none"]
StrV(s) == [t |-> "str", s |-> s]
DictV(keys, d) == [t |-> "dict", keys |-> keys, d |-> d]

Bool(b) == IF b THEN "true" ELSE "false"

\* Code points of the characters the model's strings are made of.
CharCode ==
    [c \in {" ", "'", ",", "0", "1", "2", "3", "4", "5", "6", "7", "8", "9", ":",
            "N", "^", "c", "e", "h", "i", "n", "o", "p", "r", "t", "{", "}"} |->
        CASE c = " " -> 32 [] c = "'" -> 39 [] c = "," -> 44
          [] c = "0" -> 48 [] c = "1" -> 49 [] c = "2" -> 50 [] c = "3" -> 51
          [] c = "4" -> 52 [] c = "5" -> 53 [] c = "6" -> 54 [] c = "7" -> 55
          [] c = "8" -> 56 [] c = "9" -> 57 [] c = ":" -> 58 [] c = "N" -> 78
          [] c = "^" -> 94 [] c = "c" -> 99 [] c = "e" -> 101 [] c = "h" -> 104
          [] c = "i" -> 105 [] c = "n" -> 110 [] c = "o" -> 111 [] c = "p" -> 112
          [] c = "r" -> 114 [] c = "t" -> 116 [] c = "{" -> 123 [] c = "}" -> 125]

\* The characters of the keys mappings are built with.
KeyChars ==
    [k \in {"percent", "absent"} |->
        IF k = "percent" THEN <<"p", "e", "r", "c", "e", "n", "t">>
        ELSE <<"a", "b", "s", "e", "n", "t">>]

DigitChar(d) ==
    CASE d = 0 -> "0" [] d = 1 -> "1" [] d = 2 -> "2" [] d = 3 -> "3" [] d = 4 -> "4"
      [] d = 5 -> "5" [] d = 6 -> "6" [] d = 7 -> "7" [] d = 8 -> "8" [] d = 9 -> "9"

\* str() of a non-negative number: its decimal digits.
RECURSIVE Digits(_)
Digits(n) == IF n < 10 THEN << DigitChar(n) >> ELSE Digits(n \div 10) \o << DigitChar(n % 10) >>

\* repr() of a value, as str() of a mapping shows its members.
RECURSIVE Repr(_)
RECURSIVE ReprItems(_, _)
ReprItems(v, k) ==
    IF k > Len(v.keys) THEN <<>>
    ELSE (IF k > 1 THEN <<",", " ">> ELSE <<>>)
         \o <<"'">> \o KeyChars[v.keys[k]] \o <<"'", ":", " ">>
         \o Repr(v.d[v.keys[k]]) \o ReprItems(v, k + 1)

Repr(v) ==
    CASE v.t = "int" -> Digits(v.n)
      [] v.t = "none" -> <<"N", "o", "n", "e">>
      [] v.t = "str" -> <<"'">> \o v.s \o <<"'">>
      [] v.t = "dict" -> <<"{">> \o ReprItems(v, 1) \o <<"}">>

\* str(value)
Str(v) == IF v.t = "str" THEN v.s ELSE Repr(v)

\* s < t for strings: lexicographic on code points.
RECURSIVE LexLess(_, _)
LexLess(s, t) ==
    IF Len(t) = 0 THEN FALSE
    ELSE IF Len(s) = 0 THEN TRUE
    ELSE IF CharCode[Head(s)] # CharCode[Head(t)] THEN CharCode[Head(s)] < CharCode[Head(t)]
    ELSE LexLess(Tail(s), Tail(t))

IsPrefix(p, s) == Len(p) <= Len(s) /\ SubSeq(s, 1, Len(p)) = p

\* "p in s" for strings
IsSubstring(p, s) ==
    \E i \in 0..(Len(s) - Len(p)) : SubSeq(s, i + 1, i + Len(p)) = p

\* current == target: structural equality (mappings compare without order)
PyEq(a, b) ==
    IF a.t # b.t THEN FALSE
    ELSE CASE a.t = "int" -> a.n = b.n
           [] a.t = "none" -> TRUE
           [] a.t = "str" -> a.s = b.s
           [] a.t = "dict" -> a.d = b.d

\* current < target: numbers with numbers, strings with strings; any other
\* pair of operands raises TypeError.
PyLess(a, b) ==
    IF a.t = "int" /\ b.t = "int" THEN Bool(a.n < b.n)
    ELSE IF a.t = "str" /\ b.t = "str" THEN Bool(LexLess(a.s, b.s))
    ELSE "raise"

PyLessEq(a, b) ==
    IF a.t = "int" /\ b.t = "int" THEN Bool(a.n <= b.n)
    ELSE IF a.t = "str" /\ b.t = "str" THEN Bool(~LexLess(b.s, a.s))
    ELSE "raise"

\* target in current
PyIn(target, current) ==
    CASE current.t = "str" ->
            IF target.t = "str" THEN Bool(IsSubstring(target.s, current.s)) ELSE "raise"
      [] current.t = "dict" ->
            IF target.t = "dict" THEN "raise"
            ELSE Bool(target.t = "str" /\ \E k \in DOMAIN current.d : KeyChars[k] = target.s)
      [] OTHER -> "raise"

\* bool(re.search(target, str(current))) for patterns made of literal
\* characters with an optional leading "^".
PyRegex(target, current) ==
    IF target.t # "str" THEN "raise"
    ELSE IF Len(target.s) > 0 /\ Head(target.s) = "^"
        THEN Bool(IsPrefix(Tail(target.s), Str(current)))
    ELSE Bool(IsSubstring(target.s, Str(current)))

\* Condition._compare
compare(current, target, operator) ==
    CASE operator = "==" -> Bool(PyEq(current, target))
      [] operator = "!=" -> Bool(~PyEq(current, target))
      [] operator = ">" -> PyLess(target, current)
      [] operator = "<" -> PyLess(current, target)
      [] operator = ">=" -> PyLessEq(target, current)
      [] operator = "<=" -> PyLessEq(current, target)
      [] operator = "contains" -> PyIn(target, current)
      [] operator = "regex" -> PyRegex(target, current)
      [] OTHER -> "false"

\* Condition.evaluate, the descent along params from the k-th key on:
\* [st |-> "ok", v |-> value], or st "missing" (return False), or st "raise".
RECURSIVE resolve_params(_, _, _)
resolve_params(current, params, k) ==
    IF k > Len(params) THEN [st |-> "ok", v |-> current]
    ELSE LET key == params[k]
         IN  CASE current.t = "dict" ->
                    IF key \in DOMAIN current.d
                        THEN resolve_params(current.d[key], params, k + 1)
                    ELSE [st |-> "missing"]
               [] current.t = "str" ->
                    \* key in "text" is a substring test; text[key] raises
                    IF IsSubstring(KeyChars[key], current.s)
                        THEN [st |-> "raise"]
                    ELSE [st |-> "missing"]
               [] OTHER -> [st |-> "raise"]

\* Condition.evaluate, up to the value the operator is applied to.
resolve(cond, context) ==
    IF cond.type \notin DOMAIN context THEN [st |-> "missing"]
    ELSE LET current == context[cond.type]
         IN  IF current.t = "dict" /\ Len(cond.params) > 0
                 THEN resolve_params(current, cond.params, 1)
             ELSE [st |-> "ok", v |-> current]

Not(r) == IF r = "raise" THEN "raise" ELSE Bool(r = "false")

\* A Condition.evaluate that forgets the negation.
Condition_evaluate_plain(cond, context) ==
    LET r == resolve(cond, context)
    IN  IF r.st = "missing" THEN "false"
        ELSE IF r.st = "raise" THEN "raise"
        ELSE compare(r.v, cond.value, cond.operator)

\* A Condition.evaluate that applies 'not' to the False of a missing key too.
Condition_evaluate_negates_missing(cond, context) ==
    LET r == resolve(cond, context)
    IN  IF r.st = "missing" THEN (IF cond.negated THEN "true" ELSE "false")
        ELSE IF r.st = "raise" THEN "raise"
        ELSE LET result == compare(r.v, cond.value, cond.operator)
             IN  IF cond.negated THEN Not(result) ELSE result

\* Condition.evaluate
Condition_evaluate(cond, context) ==
    LET r == resolve(cond, context)
    IN  IF r.st = "missing" THEN "false"
        ELSE IF r.st = "raise" THEN "raise"
        ELSE LET result == compare(r.v, cond.value, cond.operator)
             IN  IF cond.negated THEN Not(result) ELSE result

\* all(condition.evaluate(context) for ...): stops at the first false one.
RECURSIVE all_from(_, _, _)
all_from(conditions, context, k) ==
    IF k > Len(conditions) THEN "true"
    ELSE LET r == Condition_evaluate(conditions[k], context)
         IN  IF r = "true" THEN all_from(conditions, context, k + 1) ELSE r

\* any(condition.evaluate(context) for ...): stops at the first true one.
RECURSIVE any_from(_, _, _)
any_from(conditions, context, k) ==
    IF k > Len(conditions) THEN "false"
    ELSE LET r == Condition_evaluate(conditions[k], context)
         IN  IF r = "false" THEN any_from(conditions, context, k + 1) ELSE r

\* A Rule.evaluate that looks at the conditions before the enabled flag.
Rule_evaluate_conditions_first(rule, context) ==
    IF Len(rule.conditions) = 0 THEN "true"
    ELSE IF ~rule.enabled THEN "false"
    ELSE IF rule.condition_logic = "all" THEN all_from(rule.conditions, context, 1)
    ELSE IF rule.condition_logic = "any" THEN any_from(rule.conditions, context, 1)
    ELSE "false"

\* A Rule.evaluate that sends a rule without conditions through the logic switch.
Rule_evaluate_no_shortcut(rule, context) ==
    IF ~rule.enabled THEN "false"
    ELSE IF rule.condition_logic = "all" THEN all_from(rule.conditions, context, 1)
    ELSE IF rule.condition_logic = "any" THEN any_from(rule.conditions, context, 1)
    ELSE "false"

\* Rule.evaluate
Rule_evaluate(rule, context) ==
    IF ~rule.enabled THEN "false"
    ELSE IF Len(rule.conditions) = 0 THEN "true"
    ELSE IF rule.condition_logic = "all" THEN all_from(rule.conditions, context, 1)
    ELSE IF rule.condition_logic = "any" THEN any_from(rule.conditions, context, 1)
    ELSE "false"

---------------------------------------------------------------------------
(***************************************************************************)
(* Evaluation of one rule against one context: Condition.evaluate and      *)
(* Rule.evaluate as functions of their inputs.                             *)
(***************************************************************************)

\* Condition.__init__
Condition(type, params, operator, value, negated) ==
    [type |-> type, params |-> params, operator |-> operator,
     value |-> value, negated |-> negated]

\* Rule.__init__
Rule(id, enabled, priority, conditions, logic, actions) ==
    [id |-> id, enabled |-> enabled, priority |-> priority,
     conditions |-> conditions, condition_logic |-> logic, actions |-> actions]

Operators == {"==", "!=", ">", "<", ">=", "<=", "contains", "regex", "~="}

Targets == { IntV(80), IntV(15), NoneV, StrV(<<"h">>), StrV(<<"^", "1">>) }

ParamPaths == { <<>>, <<"percent">>, <<"absent">>, <<"percent", "percent">> }

\* Every condition over the model's subjects, paths, operators and targets.
CondAll ==
    { Condition(ty, pa, op, va, ne) :
        ty \in {"cpu", "battery", "text", "disk"}, pa \in ParamPaths,
        op \in Operators, va \in Targets, ne \in BOOLEAN }

Battery(pct) == DictV(<<"percent">>, [k \in {"percent"} |-> IntV(pct)])

\* The contexts: the empty one, and cpu (a number, or None when its provider
\* failed), battery (a mapping, or None without a battery) and a text.
Contexts ==
    { <<>> } \cup
    { [k \in {"cpu", "battery", "text"} |->
          CASE k = "cpu" -> c [] k = "battery" -> b [] k = "text" -> StrV(<<"h", "i">>)] :
        c \in {IntV(70), IntV(90), NoneV}, b \in {NoneV, Battery(15)} }

\* The conditions rules are built from.
CondPool ==
    { Condition("cpu", <<>>, ">", IntV(80), FALSE),
      Condition("cpu", <<>>, ">", IntV(80), TRUE),
      Condition("battery", <<"percent">>, "<", IntV(20), FALSE),
      Condition("battery", <<"absent">>, "==", IntV(15), FALSE),
      Condition("text", <<>>, "contains", StrV(<<"h">>), FALSE),
      Condition("disk", <<>>, "==", IntV(80), FALSE) }

Logics == {"all", "any", "xor"}

RuleInputs ==
    { Rule("r1", en, 5, cs, lg, <<>>) :
        en \in BOOLEAN, cs \in SeqsUpTo(CondPool, MaxConds), lg \in Logics }

\* One condition, every shape of it.
CondInit ==
    /\ evalIn \in { [rule |-> Rule("r1", TRUE, 5, <<c>>, "all", <<>>), context |-> x] :
                      c \in CondAll, x \in Contexts }
    /\ evalOut = NoEval
    /\ PollIdle /\ EngIdle /\ ApiIdle /\ TMIdle /\ MonIdle /\ RestIdle

\* One rule over a list of conditions.
RuleInit ==
    /\ evalIn \in { [rule |-> r, context |-> x] : r \in RuleInputs, x \in Contexts }
    /\ evalOut = NoEval
    /\ PollIdle /\ EngIdle /\ ApiIdle /\ TMIdle /\ MonIdle /\ RestIdle

\* rule.evaluate(context), and condition.evaluate(context) of each condition.
Evaluate ==
    /\ ~evalOut.done
    /\ evalOut' = [done |-> TRUE,
                   rule |-> Rule_evaluate(evalIn.rule, evalIn.context),
                   conds |-> [i \in 1..Len(evalIn.rule.conditions) |->
                                 Condition_evaluate(evalIn.rule.conditions[i], evalIn.context)],
                   before |-> evalOut.before]
    /\ UNCHANGED evalIn

\* The same rule with the 'not' of one condition set the other way, to be
\* evaluated again; the results so far are kept as "before".
Negate ==
    /\ evalOut.done
    /\ evalOut.before.i = 0
    /\ \E i \in 1..Len(evalIn.rule.conditions) :
        /\ evalIn' = [evalIn EXCEPT !.rule.conditions[i].negated = ~@]
        /\ evalOut' = [NoEval EXCEPT !.before =
                          [i |-> i, rule |-> evalOut.rule, cond |-> evalOut.conds[i]]]

EvalNext ==
    \/ Evaluate /\ UNCHANGED notEval
    \/ Negate /\ UNCHANGED notEval

SpecCond == CondInit /\ [][EvalNext]_vars

SpecRule == RuleInit /\ [][EvalNext]_vars

---------------------------------------------------------------------------
(* Claims about Condition.evaluate and Rule.evaluate *)

\* C4: Rule.evaluate returns false for every disabled rule, whatever its
\* conditions (none included), its condition_logic and the context.
C4_DisabledIsFalse ==
    (evalOut.done /\ ~evalIn.rule.enabled) => evalOut.rule = "false"

\* A disabled rule all of whose conditions hold, evaluated.
C4_Witness ==
    /\ evalOut.done
    /\ ~evalIn.rule.enabled
    /\ Len(evalIn.rule.conditions) > 0
    /\ \A i \in 1..Len(evalOut.conds) : evalOut.conds[i] = "true"
    /\ evalOut.rule = "false"

\* C5: for an enabled rule with conditions, Rule.evaluate returns true iff
\* every condition evaluates true under 'all', and iff at least one does
\* under 'any'; under 'all', a rule that was true is false once one of its
\* conditions has gone from true to false.
C5_AllAnyLogic ==
    ( /\ evalOut.done
      /\ evalIn.rule.enabled
      /\ Len(evalIn.rule.conditions) > 0 ) =>
        /\ evalIn.rule.condition_logic = "all" =>
              ( evalOut.rule = "true" <=>
                    \A i \in 1..Len(evalOut.conds) : evalOut.conds[i] = "true" )
        /\ evalIn.rule.condition_logic = "any" =>
              ( evalOut.rule = "true" <=>
                    \E i \in 1..Len(evalOut.conds) : evalOut.conds[i] = "true" )
        /\ ( /\ evalIn.rule.condition_logic = "all"
             /\ evalOut.before.i # 0
             /\ evalOut.before.cond = "true"
             /\ evalOut.conds[evalOut.before.i] = "false" ) => evalOut.rule = "false"

\* C6: Rule.evaluate returns true for every enabled rule without conditions,
\* whatever the context and the condition_logic.
C6_NoConditionsIsTrue ==
    ( /\ evalOut.done
      /\ evalIn.rule.enabled
      /\ Len(evalIn.rule.conditions) = 0 ) => evalOut.rule = "true"

\* An enabled rule without conditions evaluated against the empty context.
C6_Witness ==
    /\ evalOut.done
    /\ evalIn.rule.enabled
    /\ Len(evalIn.rule.conditions) = 0
    /\ DOMAIN evalIn.context = {}
    /\ evalOut.rule = "true"

\* C7: when the subject and the params path of a condition resolve to a
\* value, the condition with 'not' set the other way returns the logical
\* inverse of what it returned before (and raises exactly when it raised).
C7_NegationInverts ==
    ( /\ evalOut.done
      /\ evalOut.before.i # 0
      /\ resolve(evalIn.rule.conditions[evalOut.before.i], evalIn.context).st = "ok" ) =>
        LET now  == evalOut.conds[evalOut.before.i]
            then == evalOut.before.cond
        IN  /\ then = "true" => now = "false"
            /\ then = "false" => now = "true"
            /\ then = "raise" => now = "raise"

\* A condition on a value reached through params, true as written, evaluated
\* again with 'not' set and found false.
C7_Witness ==
    /\ evalOut.done
    /\ evalOut.before.i # 0
    /\ LET c == evalIn.rule.conditions[evalOut.before.i]
       IN  /\ c.negated
           /\ Len(c.params) > 0
           /\ resolve(c, evalIn.context).st = "ok"
    /\ evalOut.before.cond = "true"
    /\ evalOut.conds[evalOut.before.i] = "false"

\* The subject of the condition is no key of the context.
SubjectAbsent(cond, context) == cond.type \notin DOMAIN context

\* Descending from the mapping v along params, from the k-th key on, arrives
\* at a mapping that lacks the key.
RECURSIVE KeyMissingFrom(_, _, _)
KeyMissingFrom(v, params, k) ==
    /\ k <= Len(params)
    /\ v.t = "dict"
    /\ \/ params[k] \notin DOMAIN v.d
       \/ /\ params[k] \in DOMAIN v.d
          /\ KeyMissingFrom(v.d[params[k]], params, k + 1)

ParamsKeyMissing(cond, context) ==
    /\ cond.type \in DOMAIN context
    /\ KeyMissingFrom(context[cond.type], cond.params, 1)

\* C14: Condition.evaluate returns false, and does not raise, when the
\* subject of the condition is no key of the context and when a key of its
\* params path is missing from the mapping the descent has arrived at,
\* whether the condition is negated or not.
C14_MissingIsFalse ==
    evalOut.done =>
        \A i \in 1..Len(evalOut.conds) :
            LET cond == evalIn.rule.conditions[i]
            IN  ( \/ SubjectAbsent(cond, evalIn.context)
                  \/ ParamsKeyMissing(cond, evalIn.context) )
                => evalOut.conds[i] = "false"

\* A negated condition on battery.absent evaluated against a context whose
\* battery mapping has no such key: false.
C14_Witness ==
    /\ evalOut.done
    /\ Len(evalOut.conds) = 1
    /\ evalIn.rule.conditions[1].negated
    /\ ~SubjectAbsent(evalIn.rule.conditions[1], evalIn.context)
    /\ ParamsKeyMissing(evalIn.rule.conditions[1], evalIn.context)
    /\ evalOut.conds[1] = "false"

\* Operands an ordering operator can compare: two numbers or two strings.
Comparable(a, b) == (a.t = "int" /\ b.t = "int") \/ (a.t = "str" /\ b.t = "str")

\* C15: an ordering operator applied to a resolved value and a target that
\* are not ordinally comparable makes that one condition false: nothing is
\* raised, and under 'any' an enabled rule with another condition that is
\* true still evaluates true.
C15_IncomparableIsFalse ==
    evalOut.done =>
        \A i \in 1..Len(evalOut.conds) :
            LET cond == evalIn.rule.conditions[i]
                r    == resolve(cond, evalIn.context)
            IN  ( /\ cond.operator \in {">", "<", ">=", "<="}
                  /\ r.st = "ok"
                  /\ ~Comparable(r.v, cond.value) ) =>
                    /\ evalOut.conds[i] = "false"
                    /\ ( /\ evalIn.rule.enabled
                         /\ evalIn.rule.condition_logic = "any"
                         /\ \E j \in 1..Len(evalOut.conds) : evalOut.conds[j] = "true" )
                       => evalOut.rule = "true"

\* C16: an enabled rule whose condition_logic is neither 'all' nor 'any' is
\* never reported as matching, whatever the context and the conditions, an
\* empty condition list included.
C16_UnknownLogicIsError ==
    ( /\ evalOut.done
      /\ evalIn.rule.enabled
      /\ evalIn.rule.condition_logic \notin {"all", "any"} ) => evalOut.rule # "true"

---------------------------------------------------------------------------
(***************************************************************************)
(* RuleEngine: the rule set, evaluate_all_rules and execute_matched_rules. *)
(* The engine is wired as AppFlow.initialize wires it: context providers   *)
(* for cpu and battery are registered.  One execute_matched_rules call is   *)
(* followed step by step; what it reads of the engine it reads when it     *)
(* starts (the rules, the context), so the rule set and the metrics change *)
(* between calls, while rules are enabled and disabled at any time.        *)
(***************************************************************************)

ProviderKeys == {"cpu", "battery"}

\* A provider that raises.
ProviderError == [t |-> "error"]

\* cpu is a number or its provider raises; there is no battery.
MetricStates ==
    { [k \in ProviderKeys |-> IF k = "cpu" THEN c ELSE NoneV] :
        c \in {IntV(70), IntV(90), ProviderError} }

\* The id of the i-th rule of a document: "r1", "r2", ...
RuleId(i) == "r" \o ToString(i)

\* The actions of the i-th rule of a document.
ActionsOf(i) ==
    CASE i % 3 = 1 -> << [type |-> "notify"], [type |-> "wait"] >>
      [] i % 3 = 2 -> << [type |-> "launch"] >>
      [] OTHER -> <<>>

Priorities == {3, 5, 8}

\* The conditions of the i-th rule of a document: cpu > 80, or none.
ConditionsOf(i) ==
    IF i % 2 = 1 THEN << Condition("cpu", <<>>, ">", IntV(80), FALSE) >> ELSE <<>>

\* A rule entry of a document: the rule data, or something that is no mapping.
Entries == { [priority |-> p] : p \in Priorities }

Malformed == [malformed |-> TRUE]

\* The documents: unparsable YAML, YAML without a 'rules' section, rule
\* sections of up to MaxRules well-formed rules, and rule sections whose
\* second entry is malformed.
Documents ==
    { [kind |-> "invalid", entries |-> <<>>], [kind |-> "norules", entries |-> <<>>] }
    \cup { [kind |-> "rules", entries |-> es] : es \in SeqsUpTo(Entries, MaxRules) \ { <<>> } }
    \cup { [kind |-> "rules", entries |-> <<e, Malformed>>] : e \in Entries }

\* RuleEngine.load_rules_from_yaml, the loop over the entries: Rule() raises
\* on an entry that is no mapping, and the exception ends the load.
RECURSIVE load_from(_, _, _)
load_from(entries, k, loaded) ==
    IF k > Len(entries) THEN loaded
    ELSE IF "malformed" \in DOMAIN entries[k] THEN loaded
    ELSE load_from(entries, k + 1,
                   Append(loaded, Rule(RuleId(k), TRUE, entries[k].priority,
                                       ConditionsOf(k), "all", ActionsOf(k))))

\* RuleEngine.load_rules_from_yaml
load_rules_from_yaml(current, doc) ==
    IF doc.kind # "rules" THEN current ELSE load_from(doc.entries, 1, <<>>)

\* get_current_context with the try around the loop: a provider that
\* raises leaves no entry.
get_current_context_drops_failed(m) ==
    [k \in { x \in DOMAIN m : m[x] # ProviderError } |-> m[k]]

\* RuleEngine.get_current_context
get_current_context(m) ==
    [k \in DOMAIN m |-> IF m[k] = ProviderError THEN NoneV ELSE m[k]]

\* The loop of evaluate_all_rules: a rule whose evaluation raises is skipped.
RECURSIVE matching_from(_, _, _)
matching_from(rs, context, k) ==
    IF k > Len(rs) THEN <<>>
    ELSE IF Rule_evaluate(rs[k], context) = "true"
        THEN << rs[k] >> \o matching_from(rs, context, k + 1)
    ELSE matching_from(rs, context, k + 1)

\* list.sort(key=priority, reverse=True): stable, highest priority first.
RECURSIVE sort_by_priority(_)
sort_by_priority(rs) ==
    IF Len(rs) = 0 THEN <<>>
    ELSE LET sorted == sort_by_priority(SubSeq(rs, 1, Len(rs) - 1))
             r      == rs[Len(rs)]
             ahead  == Cardinality({ j \in 1..Len(sorted) : sorted[j].priority >= r.priority })
         IN  SubSeq(sorted, 1, ahead) \o << r >> \o SubSeq(sorted, ahead + 1, Len(sorted))

\* A sort that leaves out reverse=True.
RECURSIVE sort_ascending(_)
sort_ascending(rs) ==
    IF Len(rs) = 0 THEN <<>>
    ELSE LET sorted == sort_ascending(SubSeq(rs, 1, Len(rs) - 1))
             r      == rs[Len(rs)]
             ahead  == Cardinality({ j \in 1..Len(sorted) : sorted[j].priority <= r.priority })
         IN  SubSeq(sorted, 1, ahead) \o << r >> \o SubSeq(sorted, ahead + 1, Len(sorted))

evaluate_all_rules_ascending(rs, m) ==
    IF Len(rs) = 0 THEN [context |-> <<>>, matched |-> <<>>]
    ELSE LET context == get_current_context(m)
         IN  [context |-> context,
              matched |-> sort_ascending(matching_from(rs, context, 1))]

\* A sort that is not stable: among equal priorities the later rule first.
RECURSIVE sort_ties_reversed(_)
sort_ties_reversed(rs) ==
    IF Len(rs) = 0 THEN <<>>
    ELSE LET sorted == sort_ties_reversed(SubSeq(rs, 1, Len(rs) - 1))
             r      == rs[Len(rs)]
             ahead  == Cardinality({ j \in 1..Len(sorted) : sorted[j].priority > r.priority })
         IN  SubSeq(sorted, 1, ahead) \o << r >> \o SubSeq(sorted, ahead + 1, Len(sorted))

evaluate_all_rules_ties_reversed(rs, m) ==
    IF Len(rs) = 0 THEN [context |-> <<>>, matched |-> <<>>]
    ELSE LET context == get_current_context(m)
         IN  [context |-> context,
              matched |-> sort_ties_reversed(matching_from(rs, context, 1))]

\* RuleEngine.evaluate_all_rules: the context it built and the list it returns.
evaluate_all_rules(rs, m) ==
    IF Len(rs) = 0 THEN [context |-> <<>>, matched |-> <<>>]
    ELSE LET context == get_current_context(m)
         IN  [context |-> context,
              matched |-> sort_by_priority(matching_from(rs, context, 1))]

\* The action the inner loop of execute_matched_rules is at.
action_reversed(rule, ai) == rule.actions[Len(rule.actions) + 1 - ai]

action_at(rule, ai) == rule.actions[ai]

EngInit ==
    /\ rules = <<>>
    /\ action_executor = FALSE
    /\ metrics \in MetricStates
    /\ call = NoCall
    /\ PollIdle /\ EvalIdle /\ ApiIdle /\ TMIdle /\ MonIdle /\ RestIdle

\* RuleEngine.set_action_executor
SetActionExecutor ==
    /\ ~action_executor
    /\ action_executor' = TRUE
    /\ UNCHANGED <<rules, metrics, call>>

\* RuleEngine.load_rules_from_yaml(doc)
LoadRulesDoc(doc) ==
    /\ call.pc = "idle"
    /\ rules' = load_rules_from_yaml(rules, doc)
    /\ UNCHANGED <<action_executor, metrics, call>>

LoadRules == \E doc \in Documents : LoadRulesDoc(doc)

\* get_rule_by_id(rule_id), then rule.enabled = flag: the rule set
\* afterwards and the value returned.
set_enabled(rs, id, flag) ==
    [rules |-> [i \in 1..Len(rs) |-> IF rs[i].id = id THEN [rs[i] EXCEPT !.enabled = flag]
                                     ELSE rs[i]],
     result |-> \E i \in 1..Len(rs) : rs[i].id = id]

\* An enable_rule that enables every rule of the set.
enable_rule_every(rs, id) ==
    [rules |-> [i \in 1..Len(rs) |-> [rs[i] EXCEPT !.enabled = TRUE]],
     result |-> \E i \in 1..Len(rs) : rs[i].id = id]

\* RuleEngine.enable_rule
enable_rule(rs, id) == set_enabled(rs, id, TRUE)

\* A disable_rule that reports success and leaves the rule as it is.
disable_rule_reports_only(rs, id) ==
    [rules |-> rs, result |-> \E i \in 1..Len(rs) : rs[i].id = id]

\* RuleEngine.disable_rule
disable_rule(rs, id) == set_enabled(rs, id, FALSE)

\* The ids the callers name: those of the loaded rules and one more.
CallerIds == { RuleId(i) : i \in 1..MaxRules + 1 }

EnableRuleId(id) ==
    /\ rules' = enable_rule(rules, id).rules
    /\ UNCHANGED <<action_executor, metrics, call>>

EnableRule == \E id \in CallerIds : EnableRuleId(id)

DisableRuleId(id) ==
    /\ rules' = disable_rule(rules, id).rules
    /\ UNCHANGED <<action_executor, metrics, call>>

DisableRule == \E id \in CallerIds : DisableRuleId(id)

\* The environment: the providers return something else.
MetricsChange ==
    /\ call.pc = "idle"
    /\ metrics' \in MetricStates
    /\ UNCHANGED <<rules, action_executor, call>>

\* A call that has evaluated the rule set.
Evaluated(pc, ev) ==
    [NoCall EXCEPT !.pc = pc, !.evaluated = rules, !.context = ev.context,
                   !.matched = ev.matched]

\* RuleEngine.evaluate_all_rules, called on its own (api/flask_server.py).
EvaluateAllRules ==
    /\ call.pc = "idle"
    /\ call' = Evaluated("evaluated", evaluate_all_rules(rules, metrics))
    /\ UNCHANGED <<rules, action_executor, metrics>>

\* execute_matched_rules up to its outer loop: without an executor it returns
\* 0; otherwise it evaluates all rules.
ExecuteStart ==
    /\ call.pc = "idle"
    /\ IF ~action_executor
           THEN call' = [NoCall EXCEPT !.pc = "returned"]
       ELSE call' = Evaluated("rules", evaluate_all_rules(rules, metrics))
    /\ UNCHANGED <<rules, action_executor, metrics>>

\* self.action_executor.execute(action, rule_id=rule.id) is called.
ActionStart ==
    /\ call.pc = "rules"
    /\ call.mi <= Len(call.matched)
    /\ call.ai <= Len(call.matched[call.mi].actions)
    /\ LET rule == call.matched[call.mi]
       IN  call' = [call EXCEPT !.pc = "action",
                       !.log = Append(@, [ev |-> "call", rule |-> rule.id,
                                          action |-> action_at(rule, call.ai)])]
    /\ UNCHANGED <<rules, action_executor, metrics>>

\* An execute_matched_rules that gives up a rule whose action failed: the
\* rest of its actions are skipped and the rule is not counted.
after_action_stops_on_failure(c, ok) ==
    LET rule == c.matched[c.mi]
        returned == [c EXCEPT !.pc = "rules",
                        !.log = Append(@, [ev |-> "return", rule |-> rule.id,
                                           action |-> action_at(rule, c.ai)]),
                        !.results = Append(@, ok)]
    IN  IF ok THEN [returned EXCEPT !.ai = @ + 1]
        ELSE [returned EXCEPT !.mi = @ + 1, !.ai = 1]

\* execute_matched_rules after self.action_executor.execute(...) has
\* returned ok: the value is dropped and the inner loop goes on.
after_action(c, ok) ==
    LET rule == c.matched[c.mi]
    IN  [c EXCEPT !.pc = "rules", !.ai = @ + 1,
                  !.log = Append(@, [ev |-> "return", rule |-> rule.id,
                                     action |-> action_at(rule, c.ai)]),
                  !.results = Append(@, ok)]

\* The executor returns, with success (True) or failure (False).
ActionReturn ==
    /\ call.pc = "action"
    /\ \E ok \in BOOLEAN : call' = after_action(call, ok)
    /\ UNCHANGED <<rules, action_executor, metrics>>

\* The actions of a rule are through: executed_count += 1, next rule.
RuleDone ==
    /\ call.pc = "rules"
    /\ call.mi <= Len(call.matched)
    /\ call.ai > Len(call.matched[call.mi].actions)
    /\ call' = [call EXCEPT !.mi = @ + 1, !.ai = 1, !.executed_count = @ + 1]
    /\ UNCHANGED <<rules, action_executor, metrics>>

\* return executed_count
ExecuteReturn ==
    /\ call.pc = "rules"
    /\ call.mi > Len(call.matched)
    /\ call' = [call EXCEPT !.pc = "returned"]
    /\ UNCHANGED <<rules, action_executor, metrics>>

\* The caller has the result; another call may start.
CallOver ==
    /\ call.pc \in {"evaluated", "returned"}
    /\ call' = NoCall
    /\ UNCHANGED <<rules, action_executor, metrics>>

Next ==
    \/ SetActionExecutor /\ UNCHANGED notEng
    \/ LoadRules /\ UNCHANGED notEng
    \/ EnableRule /\ UNCHANGED notEng
    \/ DisableRule /\ UNCHANGED notEng
    \/ MetricsChange /\ UNCHANGED notEng
    \/ EvaluateAllRules /\ UNCHANGED notEng
    \/ ExecuteStart /\ UNCHANGED notEng
    \/ ActionStart /\ UNCHANGED notEng
    \/ ActionReturn /\ UNCHANGED notEng
    \/ RuleDone /\ UNCHANGED notEng
    \/ ExecuteReturn /\ UNCHANGED notEng
    \/ CallOver /\ UNCHANGED notEng

Spec == EngInit /\ [][Next]_vars

\* An engine whose except clause lets the exception end the whole call.
after_raise_ends_call(c) ==
    LET rule == c.matched[c.mi]
    IN  [c EXCEPT !.pc = "returned", !.raised = Append(@, rule.id),
                  !.log = Append(@, [ev |-> "raise", rule |-> rule.id,
                                     action |-> action_at(rule, c.ai)])]

\* execute_matched_rules, lines 295-302: an exception raised under the try
\* skips the rest of the rule's actions and the executed_count += 1 after
\* them; the outer loop goes on with the next rule.
after_raise(c) ==
    LET rule == c.matched[c.mi]
    IN  [c EXCEPT !.pc = "rules", !.mi = @ + 1, !.ai = 1, !.raised = Append(@, rule.id),
                  !.log = Append(@, [ev |-> "raise", rule |-> rule.id,
                                     action |-> action_at(rule, c.ai)])]

\* The executor raises: set_action_executor takes any object, and one that
\* is not the ActionExecutor may raise from execute().
ActionRaise ==
    /\ call.pc = "action"
    /\ call' = after_raise(call)
    /\ UNCHANGED <<rules, action_executor, metrics>>

IsoNext ==
    \/ Next
    \/ ActionRaise /\ UNCHANGED notEng

SpecIso == EngInit /\ [][IsoNext]_vars

\* The management calls of the rule set one by one, each with what it was
\* given, what it returned, and the rule set before and after it.
\* The documents loaded here: those whose rules have priority 5 or 8.
AdminDocuments ==
    { doc \in Documents :
        \A k \in 1..Len(doc.entries) :
            "priority" \in DOMAIN doc.entries[k] => doc.entries[k].priority \in {5, 8} }

AdminLoad ==
    \E doc \in AdminDocuments :
        /\ LoadRulesDoc(doc)
        /\ api' = [op |-> "load", arg |-> doc, result |-> TRUE,
                   before |-> rules, after |-> rules']

AdminEnable ==
    \E id \in CallerIds :
        /\ EnableRuleId(id)
        /\ api' = [op |-> "enable", arg |-> id, result |-> enable_rule(rules, id).result,
                   before |-> rules, after |-> rules']

AdminDisable ==
    \E id \in CallerIds :
        /\ DisableRuleId(id)
        /\ api' = [op |-> "disable", arg |-> id, result |-> disable_rule(rules, id).result,
                   before |-> rules, after |-> rules']

AdminNext ==
    \/ AdminLoad /\ UNCHANGED notAdmin
    \/ AdminEnable /\ UNCHANGED notAdmin
    \/ AdminDisable /\ UNCHANGED notAdmin

SpecAdmin == EngInit /\ [][AdminNext]_vars

---------------------------------------------------------------------------
(* Claims about evaluate_all_rules and execute_matched_rules *)

\* C2: evaluate_all_rules returns exactly the rules whose evaluate() is true
\* against the context built for the call, each once, ordered by
\* non-increasing priority.
C2_MatchedByPriority ==
    call.pc # "idle" =>
        LET rs == call.evaluated
            m  == call.matched
        IN  /\ \A i \in 1..Len(rs) :
                  (\E k \in 1..Len(m) : m[k] = rs[i])
                      <=> Rule_evaluate(rs[i], call.context) = "true"
            /\ \A k \in 1..Len(m) : \E i \in 1..Len(rs) : m[k] = rs[i]
            /\ \A k1, k2 \in 1..Len(m) : k1 # k2 => m[k1].id # m[k2].id
            /\ \A k \in 1..Len(m) - 1 : m[k].priority >= m[k + 1].priority

\* Rules of priorities 5, 8, 3, all matching, returned as 8, 5, 3.
C2_Witness ==
    /\ call.pc = "evaluated"
    /\ Len(call.evaluated) = 3
    /\ [i \in 1..3 |-> call.evaluated[i].priority] = <<5, 8, 3>>
    /\ Len(call.matched) = 3
    /\ [i \in 1..3 |-> call.matched[i].priority] = <<8, 5, 3>>

\* The executor invocations of a rule: each action called, then returned.
RECURSIVE InvocationsOf(_, _)
InvocationsOf(rule, j) ==
    IF j > Len(rule.actions) THEN <<>>
    ELSE << [ev |-> "call", rule |-> rule.id, action |-> rule.actions[j]],
            [ev |-> "return", rule |-> rule.id, action |-> rule.actions[j]] >>
         \o InvocationsOf(rule, j + 1)

\* The invocations of a list of rules: rule after rule.
RECURSIVE Invocations(_, _)
Invocations(m, k) ==
    IF k > Len(m) THEN <<>> ELSE InvocationsOf(m[k], 1) \o Invocations(m, k + 1)

\* C3: within one execute_matched_rules call the executor invocations form
\* one sequence: the matched rules by non-increasing priority, the actions
\* of a rule in declaration order, an action called only after the one
\* before has returned, all actions of a rule before the first of the next.
C3_DispatchSequence ==
    call.pc \in {"rules", "action", "returned"} =>
        LET all == Invocations(call.matched, 1)
        IN  /\ Len(call.log) <= Len(all)
            /\ call.log = SubSeq(all, 1, Len(call.log))
            /\ call.pc = "action" <=> Len(call.log) % 2 = 1
            /\ call.pc = "returned" => call.log = all
            /\ \A k \in 1..Len(call.matched) - 1 :
                  call.matched[k].priority >= call.matched[k + 1].priority

\* A finished call that dispatched three rules of falling priority, the
\* two actions of one of them among its three invocations.
C3_Witness ==
    /\ call.pc = "returned"
    /\ Len(call.matched) = 3
    /\ call.matched[1].priority > call.matched[2].priority
    /\ call.matched[2].priority > call.matched[3].priority
    /\ Len(call.log) = 6
    /\ call.executed_count = 3

\* C13: when the executor has returned False for an action, the call still
\* dispatches every remaining action of that rule and of the later rules, in
\* order, and the number it returns counts every matched rule, the one with
\* the failed action included.
C13_FailureDoesNotStop ==
    ( /\ call.pc \in {"rules", "action", "returned"}
      /\ \E k \in 1..Len(call.results) : ~call.results[k] ) =>
        LET all == Invocations(call.matched, 1)
        IN  /\ Len(call.results) = Len(call.log) \div 2
            /\ call.log = SubSeq(all, 1, Len(call.log))
            /\ call.executed_count = call.mi - 1
            /\ call.pc = "returned" =>
                   /\ call.log = all
                   /\ call.executed_count = Len(call.matched)

\* A finished call whose first action failed: the second action of that rule
\* and the action of the next rule were dispatched all the same, and both
\* rules are counted.
C13_Witness ==
    /\ call.pc = "returned"
    /\ Len(call.matched) >= 2
    /\ Len(call.matched[1].actions) = 2
    /\ Len(call.matched[2].actions) = 1
    /\ Len(call.results) = 3
    /\ ~call.results[1]
    /\ call.results[2]
    /\ Len(call.log) = 6
    /\ call.executed_count = Len(call.matched)

---------------------------------------------------------------------------
(***************************************************************************)
(* TriggerManager: the scheduler thread started by start() runs the jobs   *)
(* of run_pending once a second (the system check, the idle check, a time  *)
(* trigger when one is registered), and each job calls the engine's        *)
(* execute_matched_rules when its own condition holds.  stop() is called   *)
(* from another thread and only clears the running flag: its join waits    *)
(* two seconds at most and cancels nothing.  AppFlow.initialize has set    *)
(* the rule engine, the system monitor and the action executor.  Nothing   *)
(* in the repository calls SystemMonitor.check_watched_processes, so the   *)
(* process trigger callback never runs.                                    *)
(***************************************************************************)

Jobs == {"system", "idle", "time"}

\* What the monitor holds for memory and battery when the system check
\* reads them (the model's rules look at cpu only).
MemoryPercents == {50, 90}

BatteryInfos ==
    { [t |-> "none"] } \cup
    { [t |-> "info", percent |-> 15, power_plugged |-> pl] : pl \in BOOLEAN }

\* _check_system_triggers, lines 219-240: the hard-wired thresholds.  A
\* reading that is no number makes the comparison raise.
thresholds_exceeded(cpu, mem, bat) ==
    IF cpu.t # "int" THEN "raise"
    ELSE Bool(\/ cpu.n > 80
              \/ mem > 85
              \/ bat.t # "none" /\ bat.percent < 20 /\ ~bat.power_plugged)

\* The rule sets the engine runs on: r1 (cpu > 80), alone or with r2 (no
\* conditions).
TMRuleSets ==
    { load_rules_from_yaml(<<>>, [kind |-> "rules", entries |-> es]) :
        es \in { << [priority |-> 5] >>, << [priority |-> 5], [priority |-> 8] >> } }

TMInit ==
    /\ rules \in TMRuleSets
    /\ action_executor = TRUE
    /\ metrics \in MetricStates
    /\ call = NoCall
    /\ running = FALSE
    /\ tm \in { [NoTM EXCEPT !.custom = c, !.timed = t] : c, t \in BOOLEAN }
    /\ PollIdle /\ EvalIdle /\ ApiIdle /\ MonIdle /\ RestIdle

\* TriggerManager.start
TMStart ==
    /\ ~running
    /\ tm.pc = "off"
    /\ running' = TRUE
    /\ tm' = [tm EXCEPT !.pc = "loop"]
    /\ UNCHANGED engVars

\* TriggerManager.stop
TMStop ==
    /\ running
    /\ running' = FALSE
    /\ UNCHANGED <<tm, engVars>>

\* _run_scheduler: "while self._running", then run_pending with the jobs
\* that are due.
SchedWake ==
    /\ tm.pc = "loop"
    /\ IF running
           THEN /\ tm.wakes < MaxWakes
                /\ \E due \in SUBSET (IF tm.timed THEN Jobs ELSE Jobs \ {"time"}) :
                       tm' = [tm EXCEPT !.pc = "pending", !.due = due, !.wakes = @ + 1,
                                        !.sys = "none", !.sys_calls = 0]
       ELSE tm' = [tm EXCEPT !.pc = "exited"]
    /\ UNCHANGED <<running, engVars>>

\* _check_system_triggers, line 214: nothing when not running.
SysGuard ==
    /\ tm.pc = "pending"
    /\ "system" \in tm.due
    /\ tm' = IF running
                 THEN [tm EXCEPT !.pc = "sys_read", !.due = @ \ {"system"}, !.sys = "checking"]
             ELSE [tm EXCEPT !.due = @ \ {"system"}, !.sys = "skipped"]
    /\ UNCHANGED <<running, engVars>>

\* _check_system_triggers, lines 217-243: the readings and the thresholds.
SysRead ==
    /\ tm.pc = "sys_read"
    /\ \E mem \in MemoryPercents, bat \in BatteryInfos :
           LET exceeded == thresholds_exceeded(metrics.cpu, mem, bat)
           IN  tm' = CASE exceeded = "raise" -> [tm EXCEPT !.pc = "pending", !.sys = "failed"]
                       [] exceeded = "true" -> [tm EXCEPT !.pc = "call", !.ret = "sys_custom"]
                       [] OTHER -> [tm EXCEPT !.pc = "sys_custom"]
    /\ UNCHANGED <<running, engVars>>

\* _check_system_triggers, lines 247-254: the custom triggers; the first one
\* that fires has the rules executed.
SysCustom ==
    /\ tm.pc = "sys_custom"
    /\ \E fires \in (IF tm.custom THEN BOOLEAN ELSE {FALSE}) :
           tm' = IF fires THEN [tm EXCEPT !.pc = "call", !.ret = "sys_end"]
                 ELSE [tm EXCEPT !.pc = "pending", !.sys = "done"]
    /\ UNCHANGED <<running, engVars>>

\* _check_idle_triggers, line 263
IdleGuard ==
    /\ tm.pc = "pending"
    /\ "system" \notin tm.due
    /\ "idle" \in tm.due
    /\ tm' = IF running THEN [tm EXCEPT !.pc = "idle_read", !.due = @ \ {"idle"}]
             ELSE [tm EXCEPT !.due = @ \ {"idle"}]
    /\ UNCHANGED <<running, engVars>>

\* _check_idle_triggers, lines 267-272: idle for more than five minutes or not.
IdleRead ==
    /\ tm.pc = "idle_read"
    /\ \E long \in BOOLEAN :
           tm' = IF long THEN [tm EXCEPT !.pc = "call", !.ret = "pending"]
                 ELSE [tm EXCEPT !.pc = "pending"]
    /\ UNCHANGED <<running, engVars>>

\* The thread enters execute_matched_rules (lines 244, 251, 272).
TMCall ==
    /\ tm.pc = "call"
    /\ ExecuteStart
    /\ tm' = [tm EXCEPT !.pc = "in_call",
                        !.sys_calls = IF tm.ret \in {"sys_custom", "sys_end"} THEN @ + 1 ELSE @]
    /\ UNCHANGED running

\* _execute_time_trigger: the flag is tested and the call made in one statement.
TimeTrigger ==
    /\ tm.pc = "pending"
    /\ tm.due = {"time"}
    /\ IF running
           THEN /\ ExecuteStart
                /\ tm' = [tm EXCEPT !.pc = "in_call", !.due = {}, !.ret = "pending"]
       ELSE /\ tm' = [tm EXCEPT !.due = {}]
            /\ UNCHANGED engVars
    /\ UNCHANGED running

\* execute_matched_rules has returned to the job that called it.
TMCallReturn ==
    /\ tm.pc = "in_call"
    /\ call.pc = "returned"
    /\ CallOver
    /\ tm' = CASE tm.ret = "sys_custom" -> [tm EXCEPT !.pc = "sys_custom", !.ret = "none"]
               [] tm.ret = "sys_end" -> [tm EXCEPT !.pc = "pending", !.ret = "none", !.sys = "done"]
               [] OTHER -> [tm EXCEPT !.pc = "pending", !.ret = "none"]
    /\ UNCHANGED running

\* run_pending is through: time.sleep(1), and the loop tests the flag again.
SchedSleep ==
    /\ tm.pc = "pending"
    /\ tm.due = {}
    /\ tm' = [tm EXCEPT !.pc = "loop"]
    /\ UNCHANGED <<running, engVars>>

\* The metrics change between two wake-ups.
TMMetricsChange ==
    /\ tm.pc \in {"off", "loop"}
    /\ MetricsChange
    /\ UNCHANGED tmVars

TMNext ==
    \/ TMStart /\ UNCHANGED notTM
    \/ TMStop /\ UNCHANGED notTM
    \/ SchedWake /\ UNCHANGED notTM
    \/ SysGuard /\ UNCHANGED notTM
    \/ SysRead /\ UNCHANGED notTM
    \/ SysCustom /\ UNCHANGED notTM
    \/ IdleGuard /\ UNCHANGED notTM
    \/ IdleRead /\ UNCHANGED notTM
    \/ TMCall /\ UNCHANGED notTM
    \/ TimeTrigger /\ UNCHANGED notTM
    \/ tm.pc = "in_call" /\ ActionStart /\ UNCHANGED tmVars /\ UNCHANGED notTM
    \/ tm.pc = "in_call" /\ ActionReturn /\ UNCHANGED tmVars /\ UNCHANGED notTM
    \/ tm.pc = "in_call" /\ RuleDone /\ UNCHANGED tmVars /\ UNCHANGED notTM
    \/ tm.pc = "in_call" /\ ExecuteReturn /\ UNCHANGED tmVars /\ UNCHANGED notTM
    \/ TMCallReturn /\ UNCHANGED notTM
    \/ SchedSleep /\ UNCHANGED notTM
    \/ TMMetricsChange /\ UNCHANGED notTM

SpecTM == TMInit /\ [][TMNext]_vars

(***************************************************************************)
(* The trigger manager with rules toggled meanwhile: the API thread        *)
(* (flask_server.py, toggle_rule) calls enable_rule and disable_rule while *)
(* the scheduler thread runs.  api keeps the toggles: disabled, the ids    *)
(* for which disable_rule returned True and enable_rule was not called     *)
(* since; barred, what disabled was when the call in progress started.     *)
(***************************************************************************)

notToggle == <<pollVars, evalVars, monVars, restVars>>

ToggleInit ==
    /\ rules \in TMRuleSets
    /\ action_executor = TRUE
    /\ metrics \in MetricStates
    /\ call = NoCall
    /\ running = FALSE
    /\ tm \in { [NoTM EXCEPT !.timed = TRUE, !.custom = c] : c \in BOOLEAN }
    /\ api = [op |-> "none", disabled |-> {}, barred |-> {}]
    /\ PollIdle /\ EvalIdle /\ MonIdle /\ RestIdle

\* enable_rule(id), from the API thread
ToggleEnable ==
    /\ \E i \in 1..MaxRules :
        /\ rules' = enable_rule(rules, RuleId(i)).rules
        /\ api' = [api EXCEPT !.op = "enable", !.disabled = @ \ {RuleId(i)}]
    /\ UNCHANGED <<action_executor, metrics, call, tmVars>>

\* disable_rule(id), from the API thread
ToggleDisable ==
    /\ \E i \in 1..MaxRules :
        LET r == disable_rule(rules, RuleId(i))
        IN  /\ rules' = r.rules
            /\ api' = [api EXCEPT !.op = "disable",
                                  !.disabled = IF r.result THEN @ \cup {RuleId(i)} ELSE @]
    /\ UNCHANGED <<action_executor, metrics, call, tmVars>>

\* A step of the scheduler thread; a step that starts an
\* execute_matched_rules call notes the rules disabled by then.
ToggleStep(step) ==
    /\ step
    /\ api' = IF call.pc = "idle" /\ call'.pc # "idle"
                  THEN [api EXCEPT !.barred = api.disabled]
              ELSE api

ToggleNext ==
    \/ ToggleEnable /\ UNCHANGED notToggle
    \/ ToggleDisable /\ UNCHANGED notToggle
    \/ ToggleStep(TMStart) /\ UNCHANGED notToggle
    \/ ToggleStep(TMStop) /\ UNCHANGED notToggle
    \/ ToggleStep(SchedWake) /\ UNCHANGED notToggle
    \/ ToggleStep(SysGuard) /\ UNCHANGED notToggle
    \/ ToggleStep(SysRead) /\ UNCHANGED notToggle
    \/ ToggleStep(SysCustom) /\ UNCHANGED notToggle
    \/ ToggleStep(IdleGuard) /\ UNCHANGED notToggle
    \/ ToggleStep(IdleRead) /\ UNCHANGED notToggle
    \/ ToggleStep(TMCall) /\ UNCHANGED notToggle
    \/ ToggleStep(TimeTrigger) /\ UNCHANGED notToggle
    \/ tm.pc = "in_call" /\ ToggleStep(ActionStart) /\ UNCHANGED tmVars /\ UNCHANGED notToggle
    \/ tm.pc = "in_call" /\ ToggleStep(ActionReturn) /\ UNCHANGED tmVars /\ UNCHANGED notToggle
    \/ tm.pc = "in_call" /\ ToggleStep(RuleDone) /\ UNCHANGED tmVars /\ UNCHANGED notToggle
    \/ tm.pc = "in_call" /\ ToggleStep(ExecuteReturn) /\ UNCHANGED tmVars /\ UNCHANGED notToggle
    \/ ToggleStep(TMCallReturn) /\ UNCHANGED notToggle
    \/ ToggleStep(SchedSleep) /\ UNCHANGED notToggle
    \/ ToggleStep(TMMetricsChange) /\ UNCHANGED notToggle

SpecToggle == ToggleInit /\ [][ToggleNext]_vars

---------------------------------------------------------------------------
(* Claims about the TriggerManager *)

\* C11: while the trigger manager is running, a system check that has run to
\* its end has had the rules evaluated and the matched ones dispatched:
\* when an enabled rule matches the current context, the check has called
\* execute_matched_rules.
C11_WakeUpEvaluates ==
    ( /\ running
      /\ tm.pc = "pending"
      /\ tm.sys = "done" ) =>
        ( Len(evaluate_all_rules(rules, metrics).matched) > 0 => tm.sys_calls > 0 )

\* C19: once stop() has cleared the running flag, no trigger path starts a
\* new execute_matched_rules call: every call starts while the flag is set.
C19_NoCallAfterStop ==
    [][ (call.pc = "idle" /\ call'.pc # "idle") => running ]_vars

---------------------------------------------------------------------------
(* Claims about the management of the rule set *)

\* A document the load of which fails: YAML that does not parse, no 'rules'
\* section, or an entry that is no rule.
LoadFails(doc) ==
    \/ doc.kind # "rules"
    \/ \E k \in 1..Len(doc.entries) : "malformed" \in DOMAIN doc.entries[k]

\* The rules a well-formed document defines.
DefinedBy(doc) ==
    [k \in 1..Len(doc.entries) |->
        Rule(RuleId(k), TRUE, doc.entries[k].priority, ConditionsOf(k), "all", ActionsOf(k))]

\* C17: after load_rules_from_yaml has returned, the rule set is exactly the
\* rules the document defines, or, when the load failed, exactly the rule
\* set of before; never something in between.
C17_LoadAllOrNothing ==
    api.op = "load" =>
        IF LoadFails(api.arg) THEN api.after = api.before
        ELSE api.after = DefinedBy(api.arg)

\* C18: enable_rule(id) and disable_rule(id) return true exactly when id is
\* in the rule set; they set the enabled flag of that rule and leave every
\* other rule and every other field as they were, so an unknown id changes
\* nothing.
C18_EnableDisableFrame ==
    api.op \in {"enable", "disable"} =>
        LET known == \E i \in 1..Len(api.before) : api.before[i].id = api.arg
        IN  /\ api.result = known
            /\ Len(api.after) = Len(api.before)
            /\ \A i \in 1..Len(api.before) :
                   api.after[i] =
                       IF api.before[i].id = api.arg
                           THEN [api.before[i] EXCEPT !.enabled = (api.op = "enable")]
                       ELSE api.before[i]
            /\ ~known => api.after = api.before

\* enable_rule("r2") on three rules of which r2 and r3 were disabled: true is
\* returned, r2 is enabled and r3 is still disabled.
C18_Witness ==
    /\ api.op = "enable"
    /\ api.arg = "r2"
    /\ api.result
    /\ Len(api.before) = 3
    /\ api.before[1].enabled /\ ~api.before[2].enabled /\ ~api.before[3].enabled
    /\ api.after[1].enabled /\ api.after[2].enabled /\ ~api.after[3].enabled

---------------------------------------------------------------------------
(***************************************************************************)
(* SystemMonitor and the context built from it.  The monitoring thread     *)
(* writes the five metrics of one measurement under _metrics_lock; each    *)
(* getter takes the lock for its own read.  get_current_context calls the  *)
(* providers AppFlow registered, one after the other; the sixth, system,   *)
(* reads the uptime and not the metrics.  A metric is modelled by the      *)
(* number of the update that wrote it (0: the values of __init__).         *)
(***************************************************************************)

MetricKeys == <<"cpu", "memory", "battery", "network", "disk">>

Providers == <<"cpu", "memory", "battery", "network", "disk", "system">>

\* The length the CPU history is cut to.
HistoryCap == 60

\* An update that appends and never drops.
append_sample_keeps_all(history, sample) == Append(history, sample)

\* _update_metrics, lines 154-158: history.append(cpu_usage), and pop(0)
\* when the list has grown past the cap.
append_sample(history, sample) ==
    LET appended == Append(history, sample)
    IN  IF Len(appended) > HistoryCap THEN Tail(appended) ELSE appended

MonInit ==
    /\ cpu_history = <<>>
    /\ sm_metrics = [k \in { MetricKeys[i] : i \in 1..Len(MetricKeys) } |-> 0]
    /\ lock = "free"
    /\ updater = NoUpdater
    /\ reader = NoReader
    /\ PollIdle /\ EvalIdle /\ EngIdle /\ ApiIdle /\ TMIdle /\ RestIdle

\* _update_metrics, line 151: "with self._metrics_lock" is entered.
UpdateBeginUpTo(max) ==
    /\ updater.pc = "idle"
    /\ updater.n < max
    /\ lock = "free"
    /\ lock' = "updater"
    /\ updater' = [pc |-> "writing", k |-> 1, n |-> updater.n + 1]
    /\ UNCHANGED <<sm_metrics, reader, cpu_history>>

UpdateBegin == UpdateBeginUpTo(MaxUpdates)

\* _update_metrics, lines 152-176: one metric after the other; the cpu
\* sample of the update goes to the history as well.
UpdateWrite ==
    /\ updater.pc = "writing"
    /\ updater.k <= Len(MetricKeys)
    /\ sm_metrics' = [sm_metrics EXCEPT ![MetricKeys[updater.k]] = updater.n]
    /\ cpu_history' = IF MetricKeys[updater.k] = "cpu"
                          THEN append_sample(cpu_history, updater.n)
                      ELSE cpu_history
    /\ updater' = [updater EXCEPT !.k = @ + 1]
    /\ UNCHANGED <<lock, reader>>

\* The with block is left.
UpdateEnd ==
    /\ updater.pc = "writing"
    /\ updater.k > Len(MetricKeys)
    /\ lock' = "free"
    /\ updater' = [updater EXCEPT !.pc = "idle", !.k = 1]
    /\ UNCHANGED <<sm_metrics, reader, cpu_history>>

\* get_current_context, line 246
ContextStart ==
    /\ reader.pc = "idle"
    /\ reader' = [pc |-> "reading", k |-> 1, context |-> <<>>]
    /\ UNCHANGED <<sm_metrics, lock, updater, cpu_history>>

\* get_current_context, line 249: context[key] = provider(); the getter
\* behind the provider holds the lock while it reads its metric.
ReadProvider ==
    /\ reader.pc = "reading"
    /\ reader.k <= Len(Providers)
    /\ LET key == Providers[reader.k]
       IN  IF key = "system"
               THEN reader' = [reader EXCEPT !.k = @ + 1,
                                  !.context = Append(@, [key |-> key, from |-> "uptime", n |-> 0])]
           ELSE /\ lock = "free"
                /\ reader' = [reader EXCEPT !.k = @ + 1,
                                 !.context = Append(@, [key |-> key, from |-> "metrics",
                                                        n |-> sm_metrics[key]])]
    /\ UNCHANGED <<sm_metrics, lock, updater, cpu_history>>

\* get_current_context, line 253: return context
ContextReturn ==
    /\ reader.pc = "reading"
    /\ reader.k > Len(Providers)
    /\ reader' = [reader EXCEPT !.pc = "done"]
    /\ UNCHANGED <<sm_metrics, lock, updater, cpu_history>>

\* The caller has the context; the next call may start.
ContextOver ==
    /\ reader.pc = "done"
    /\ reader' = NoReader
    /\ UNCHANGED <<sm_metrics, lock, updater, cpu_history>>

MonNext ==
    \/ UpdateBegin /\ UNCHANGED notMon
    \/ UpdateWrite /\ UNCHANGED notMon
    \/ UpdateEnd /\ UNCHANGED notMon
    \/ ContextStart /\ UNCHANGED notMon
    \/ ReadProvider /\ UNCHANGED notMon
    \/ ContextReturn /\ UNCHANGED notMon
    \/ ContextOver /\ UNCHANGED notMon

SpecMon == MonInit /\ [][MonNext]_vars

\* get_cpu_history: a copy of the history, taken under the lock.
GetCpuHistory ==
    /\ lock = "free"
    /\ reader' = [pc |-> "history", k |-> 1, context |-> cpu_history]
    /\ UNCHANGED <<sm_metrics, lock, updater, cpu_history>>

\* The monitoring thread over many updates, and a reader of the history.
HistNext ==
    \/ UpdateBeginUpTo(MaxSamples) /\ UNCHANGED notMon
    \/ UpdateWrite /\ UNCHANGED notMon
    \/ UpdateEnd /\ UNCHANGED notMon
    \/ GetCpuHistory /\ UNCHANGED notMon

SpecHist == MonInit /\ [][HistNext]_vars

---------------------------------------------------------------------------
(* Claims about the context snapshot *)

\* C20: every context get_current_context returns is a consistent snapshot:
\* all the metric values in it were written by the same update.
C20_ConsistentSnapshot ==
    reader.pc = "done" =>
        \A i, j \in 1..Len(reader.context) :
            ( reader.context[i].from = "metrics" /\ reader.context[j].from = "metrics" )
                => reader.context[i].n = reader.context[j].n

\* The samples that have arrived: update n has delivered its cpu sample once
\* its first write is done.
Arrived ==
    IF updater.pc = "writing" /\ updater.k = 1 THEN updater.n - 1 ELSE updater.n

\* C21: the CPU history never holds more than 60 samples, and it is the most
\* recent samples in the order they arrived: of the samples 1..Arrived it
\* holds the last Len(cpu_history), oldest first, and drops a sample only
\* when it is full.
C21_HistoryBounded ==
    /\ Len(cpu_history) <= HistoryCap
    /\ reader.pc = "history" => Len(reader.context) <= HistoryCap
    /\ Len(cpu_history) = IF Arrived < HistoryCap THEN Arrived ELSE HistoryCap
    /\ \A i \in 1..Len(cpu_history) :
           cpu_history[i] = Arrived - Len(cpu_history) + i

\* A sample was appended to a full history and the oldest one dropped.
C21_Witness ==
    /\ reader.pc = "history"
    /\ Len(reader.context) = HistoryCap
    /\ Len(cpu_history) = HistoryCap
    /\ Arrived > HistoryCap
    /\ cpu_history[1] = Arrived - HistoryCap + 1

---------------------------------------------------------------------------
(***************************************************************************)
(* The network rate samplers: the one inside SystemMonitor._update_metrics *)
(* (upload and download rate) and get_network_bytes_per_sec of             *)
(* utils/system.py (total throughput).  Each keeps the counters and the    *)
(* time of its previous call.  A rate is a quotient of a byte difference   *)
(* and a time difference, kept as the pair of the two.                     *)
(***************************************************************************)

Frac(n, d) == [num |-> n, den |-> d]

ZeroRate == Frac(0, 1)

\* time.time(): positive, and not monotonic (the wall clock can be set back).
Clock == 1..MaxClock

\* psutil.net_io_counters(): bytes_sent, bytes_recv
NetCounters == { [sent |-> sn, recv |-> rc] : sn \in {1000, 1500}, rc \in {2000, 4000} }

\* SystemMonitor.__init__: self._network_last
NetworkLastInit == [time |-> 0, sent |-> 0, recv |-> 0]

\* _last_net = None, _last_net_time = None
LastNetNone == [none |-> TRUE]

\* A sampler that has no first call: it always divides by the time since
\* the baseline.
network_rate_always(last, now, io) ==
    IF now - last.time > 0
        THEN [sent_rate |-> Frac(io.sent - last.sent, now - last.time),
              recv_rate |-> Frac(io.recv - last.recv, now - last.time)]
    ELSE [sent_rate |-> ZeroRate, recv_rate |-> ZeroRate]

\* _update_metrics, lines 119-128: network_rate
network_rate(last, now, io) ==
    IF last.time > 0 /\ now - last.time > 0
        THEN [sent_rate |-> Frac(io.sent - last.sent, now - last.time),
              recv_rate |-> Frac(io.recv - last.recv, now - last.time)]
    ELSE [sent_rate |-> ZeroRate, recv_rate |-> ZeroRate]

\* get_network_bytes_per_sec: the value returned
get_network_bytes_per_sec(last, now, io) ==
    IF "none" \in DOMAIN last THEN ZeroRate
    ELSE IF now - last.time <= 0 THEN ZeroRate
    ELSE Frac((io.sent - last.sent) + (io.recv - last.recv), now - last.time)

NetInit ==
    /\ net = [impl |-> "none", network_last |-> NetworkLastInit, last_net |-> LastNetNone,
              called |-> {}, first |-> FALSE, prev |-> NetworkLastInit, now |-> 0,
              io |-> [sent |-> 0, recv |-> 0], rate |-> ZeroRate]
    /\ PollIdle /\ EvalIdle /\ EngIdle /\ ApiIdle /\ TMIdle /\ MonIdle
    /\ pm = NoPM /\ exe = NoExe /\ app = NoApp /\ SvcIdle

\* The network part of SystemMonitor._update_metrics (lines 115-134).
MonitorSample ==
    \E now \in Clock, io \in NetCounters :
        net' = [net EXCEPT !.impl = "monitor",
                   !.network_last = [time |-> now, sent |-> io.sent, recv |-> io.recv],
                   !.called = @ \cup {"monitor"},
                   !.first = "monitor" \notin net.called,
                   !.prev = net.network_last, !.now = now, !.io = io,
                   !.rate = network_rate(net.network_last, now, io)]

\* utils/system.py, get_network_bytes_per_sec()
SystemSample ==
    \E now \in Clock, io \in NetCounters :
        net' = [net EXCEPT !.impl = "system",
                   !.last_net = [time |-> now, sent |-> io.sent, recv |-> io.recv],
                   !.called = @ \cup {"system"},
                   !.first = "system" \notin net.called,
                   !.prev = net.last_net, !.now = now, !.io = io,
                   !.rate = get_network_bytes_per_sec(net.last_net, now, io)]

NetNext ==
    \/ MonitorSample /\ UNCHANGED notNet
    \/ SystemSample /\ UNCHANGED notNet

SpecNet == NetInit /\ [][NetNext]_vars

---------------------------------------------------------------------------
(* Claims about the network rate *)

\* The rate is the quotient n / d.
RateIs(rate, n, d) == rate.num * d = n * rate.den

\* C22: a sampler returns rate 0 on its first call, which only records the
\* counters and the time as the baseline, and whenever the time elapsed since
\* the previous sample is not positive; otherwise it returns
\* (current bytes - previous bytes) / elapsed time.
C22_NetworkRate ==
    net.impl # "none" =>
        LET elapsed == net.now - net.prev.time
            zero    == net.first \/ elapsed <= 0
        IN  /\ net.impl = "monitor" =>
                /\ net.network_last = [time |-> net.now, sent |-> net.io.sent, recv |-> net.io.recv]
                /\ IF zero
                       THEN RateIs(net.rate.sent_rate, 0, 1) /\ RateIs(net.rate.recv_rate, 0, 1)
                   ELSE /\ RateIs(net.rate.sent_rate, net.io.sent - net.prev.sent, elapsed)
                        /\ RateIs(net.rate.recv_rate, net.io.recv - net.prev.recv, elapsed)
            /\ net.impl = "system" =>
                /\ net.last_net = [time |-> net.now, sent |-> net.io.sent, recv |-> net.io.recv]
                /\ IF zero THEN RateIs(net.rate, 0, 1)
                   ELSE RateIs(net.rate, (net.io.sent + net.io.recv)
                                             - (net.prev.sent + net.prev.recv), elapsed)

\* 500 more bytes sent over one second: an upload rate of 500.
C22_Witness ==
    /\ net.impl = "monitor"
    /\ ~net.first
    /\ net.now - net.prev.time = 1
    /\ net.io.sent - net.prev.sent = 500
    /\ RateIs(net.rate.sent_rate, 500, 1)

---------------------------------------------------------------------------
(***************************************************************************)
(* The ProcessManager's kill methods.  The process table is what           *)
(* psutil.process_iter reports when find_processes_by_name reads it: per   *)
(* pid a name, or None where psutil could not read the name (as_dict puts  *)
(* None for an attribute whose read raised AccessDenied or ZombieProcess). *)
(* What a process does when it is signalled is the environment's choice.   *)
(***************************************************************************)

NoName == <<"None">>

\* Process names, as sequences of characters.
ProcessNames == { <<"a">>, <<"A", "b">>, <<"c">>, NoName }

\* The names a caller asks for.
QueryNames == { <<"a">>, <<"b">>, <<"z">> }

\* The tables: pids 1..n, each with a name.
ProcessTables == UNION { [1..n -> ProcessNames] : n \in 0..MaxProcs }

\* str.lower()
LowerChar(c) == IF c = "A" THEN "a" ELSE c

Lower(str) == [i \in 1..Len(str) |-> LowerChar(str[i])]

\* find_processes_by_name: the pids whose lower-cased name contains the
\* lower-cased name asked for, in table order; None has no lower().
RECURSIVE find_from(_, _, _)
find_from(table, name, k) ==
    IF k > Len(table) THEN <<>>
    ELSE IF table[k] = NoName THEN "raise"
    ELSE LET rest == find_from(table, name, k + 1)
         IN  IF rest = "raise" THEN "raise"
             ELSE IF IsSubstring(Lower(name), Lower(table[k])) THEN << k >> \o rest
             ELSE rest

find_processes_by_name(table, name) == find_from(table, name, 1)

\* kill_process_by_pid after process.wait(timeout=3): where it goes on.
after_wait_kills_anyway(outcome) == "kill"

after_wait(outcome) == IF outcome = "TimeoutExpired" THEN "kill" ELSE "return"

\* A call: op is the method called from outside; matches, i, success and
\* results belong to the loop of kill_process_by_name; calls are the pids
\* kill_process_by_pid was called with; pid and sig belong to the
\* kill_process_by_pid call in progress or last finished: sig is what it
\* did to the process and what the process did; ret is what the outer
\* method returned ("raise": an exception left it).
KillIdle(table) ==
    [pc |-> "idle", table |-> table, op |-> "none", name |-> <<>>, matches |-> <<>>,
     i |-> 1, success |-> FALSE, results |-> <<>>, calls |-> <<>>, pid |-> 0,
     sig |-> <<>>, ret |-> "none"]

KillInit ==
    /\ pm \in { KillIdle(t) : t \in ProcessTables }
    /\ PollIdle /\ EvalIdle /\ EngIdle /\ ApiIdle /\ TMIdle /\ MonIdle
    /\ net = NoNet /\ exe = NoExe /\ app = NoApp /\ SvcIdle

\* kill_process_by_name(name), up to its loop
KillByName ==
    /\ pm.pc = "idle"
    /\ \E name \in QueryNames :
        LET processes == find_processes_by_name(pm.table, name)
            started   == [KillIdle(pm.table) EXCEPT !.op = "by_name", !.name = name]
        IN  pm' = IF processes = "raise" THEN [started EXCEPT !.pc = "done", !.ret = "raise"]
                  ELSE IF processes = <<>> THEN [started EXCEPT !.pc = "done", !.ret = "false"]
                  ELSE [started EXCEPT !.pc = "loop", !.matches = processes]

\* kill_process_by_pid(pid), called from outside
KillByPid ==
    /\ pm.pc = "idle"
    /\ \E pid \in 1..MaxProcs :
        pm' = [KillIdle(pm.table) EXCEPT !.op = "by_pid", !.pc = "open", !.pid = pid,
                                         !.calls = << pid >>]

\* The loop of kill_process_by_name calls kill_process_by_pid(proc['pid']).
LoopCall ==
    /\ pm.pc = "loop"
    /\ pm.i <= Len(pm.matches)
    /\ pm' = [pm EXCEPT !.pc = "open", !.pid = pm.matches[pm.i], !.sig = <<>>,
                        !.calls = Append(@, pm.matches[pm.i])]

\* return success
LoopEnd ==
    /\ pm.pc = "loop"
    /\ pm.i > Len(pm.matches)
    /\ pm' = [pm EXCEPT !.pc = "done", !.ret = Bool(pm.success)]

\* kill_process_by_pid returns result, to the loop or to the outside.
PidReturn(p, result) ==
    IF p.op = "by_pid" THEN [p EXCEPT !.pc = "done", !.ret = Bool(result)]
    ELSE [p EXCEPT !.pc = "loop", !.i = @ + 1, !.results = Append(@, result),
                   !.success = @ \/ result]

\* psutil.Process(pid): the process may be gone by now.
PidOpen ==
    /\ pm.pc = "open"
    /\ \E outcome \in {"ok", "NoSuchProcess"} :
        pm' = IF outcome = "ok" THEN [pm EXCEPT !.pc = "terminate"]
              ELSE PidReturn(pm, FALSE)

\* process.terminate()
PidTerminate ==
    /\ pm.pc = "terminate"
    /\ \E outcome \in {"ok", "AccessDenied", "NoSuchProcess"} :
        pm' = IF outcome = "ok"
                  THEN [pm EXCEPT !.pc = "wait", !.sig = Append(@, "terminate")]
              ELSE PidReturn([pm EXCEPT !.sig = Append(@, "terminate refused")], FALSE)

\* process.wait(timeout=3)
PidWait ==
    /\ pm.pc = "wait"
    /\ \E outcome \in {"exited", "TimeoutExpired"} :
        LET waited == [pm EXCEPT !.sig = Append(@, outcome)]
        IN  pm' = IF after_wait(outcome) = "kill" THEN [waited EXCEPT !.pc = "kill"]
                  ELSE PidReturn(waited, TRUE)

\* process.kill()
PidKill ==
    /\ pm.pc = "kill"
    /\ \E outcome \in {"ok", "AccessDenied", "NoSuchProcess"} :
        pm' = PidReturn([pm EXCEPT !.sig = Append(@, "kill")], outcome = "ok")

\* The caller has the result.
KillOver ==
    /\ pm.pc = "done"
    /\ pm' = KillIdle(pm.table)

KillNext ==
    \/ KillByName /\ UNCHANGED notKill
    \/ KillByPid /\ UNCHANGED notKill
    \/ LoopCall /\ UNCHANGED notKill
    \/ LoopEnd /\ UNCHANGED notKill
    \/ PidOpen /\ UNCHANGED notKill
    \/ PidTerminate /\ UNCHANGED notKill
    \/ PidWait /\ UNCHANGED notKill
    \/ PidKill /\ UNCHANGED notKill
    \/ KillOver /\ UNCHANGED notKill

SpecKill == KillInit /\ [][KillNext]_vars

---------------------------------------------------------------------------
(* Claims about the kill methods *)

\* The running processes that match a name: those whose name contains it,
\* whatever the case of the letters.
Matching(table, name) ==
    { k \in 1..Len(table) : table[k] # NoName /\ IsSubstring(Lower(name), Lower(table[k])) }

\* C23: kill_process_by_name never raises; when no running process matches
\* the name it returns false without calling kill_process_by_pid; when
\* processes match it calls kill_process_by_pid for every match and returns
\* true iff at least one of these calls succeeded.
C23_KillByName ==
    (pm.pc = "done" /\ pm.op = "by_name") =>
        /\ pm.ret # "raise"
        /\ Matching(pm.table, pm.name) = {} => (pm.ret = "false" /\ pm.calls = <<>>)
        /\ Matching(pm.table, pm.name) # {} =>
               /\ { pm.calls[j] : j \in 1..Len(pm.calls) } = Matching(pm.table, pm.name)
               /\ Len(pm.calls) = Cardinality(Matching(pm.table, pm.name))
               /\ pm.ret = Bool(\E j \in 1..Len(pm.results) : pm.results[j])

\* C25: kill_process_by_pid sends the graceful terminate first and the
\* forceful kill only after the 3-second wait has timed out: what a call did
\* is a prefix of terminate, TimeoutExpired, kill, or it is terminate,
\* exited, or the terminate was refused.
C25_TerminateThenKill ==
    \/ IsPrefix(pm.sig, <<"terminate", "TimeoutExpired", "kill">>)
    \/ pm.sig = <<"terminate", "exited">>
    \/ pm.sig = <<"terminate refused">>

\* A call that escalated to the kill, and one whose process exited in time.
C25_Witness ==
    /\ pm.op = "by_name"
    /\ Len(pm.results) = 1
    /\ pm.pc = "loop"
    /\ pm.sig = <<"terminate", "TimeoutExpired", "kill">>

---------------------------------------------------------------------------
(***************************************************************************)
(* The ActionExecutor behind the engine.  The rule set is one rule whose   *)
(* first action is any action a rules file can hold (a kill or an          *)
(* execute_command with any parameters, another built-in, a custom or an   *)
(* unknown type, a mapping without 'type', something that is no mapping)   *)
(* and whose second action is a notify.  What the process manager, the     *)
(* command or a handler does is the environment's choice.                  *)
(***************************************************************************)

AbsentV == [t |-> "absent"]

BoolV(b) == [t |-> "bool", b |-> b]

\* bool(v), as "if v:" and "a and b" take it; a key that is absent reads
\* as None.
Truthy(v) ==
    CASE v.t = "int" -> v.n # 0
      [] v.t = "str" -> v.s # <<>>
      [] v.t = "bool" -> v.b
      [] OTHER -> FALSE

NoParams ==
    [pid |-> AbsentV, name |-> AbsentV, window_title |-> AbsentV,
     command |-> AbsentV, require_success |-> AbsentV]

KillActions ==
    { [isdict |-> TRUE, has_type |-> TRUE, type |-> "kill",
       params |-> [NoParams EXCEPT !.pid = p, !.name = n, !.window_title = w]] :
        p \in {AbsentV, IntV(0), IntV(1234)},
        n \in {AbsentV, StrV(<<>>), StrV(<<"a">>)},
        w \in {AbsentV, StrV(<<"T">>)} }

CommandActions ==
    { [isdict |-> TRUE, has_type |-> TRUE, type |-> "execute_command",
       params |-> [NoParams EXCEPT !.command = c, !.require_success = r]] :
        c \in {AbsentV, StrV(<<"c">>)},
        r \in {AbsentV, BoolV(TRUE), BoolV(FALSE)} }

NotifyAction == [isdict |-> TRUE, has_type |-> TRUE, type |-> "notify", params |-> NoParams]

OtherActions ==
    { [isdict |-> TRUE, has_type |-> TRUE, type |-> t, params |-> NoParams] :
        t \in {"launch", "wait", "notify", "custom", "mystery"} }
    \cup { [isdict |-> TRUE, has_type |-> FALSE, type |-> "", params |-> NoParams],
           [isdict |-> FALSE, has_type |-> FALSE, type |-> "", params |-> NoParams] }

ExecActions == KillActions \cup CommandActions \cup OtherActions

BuiltinTypes == {"launch", "kill", "wait", "notify", "execute_command"}

\* What the world does under one execute(): what a process-manager method
\* or a handler returns ("raise": it raises), and the exit code of a command.
Environments ==
    { [handler |-> h, returncode |-> rc] : h \in {"true", "false", "raise"}, rc \in {0, 1} }

\* A _kill_application that looks at the name before the pid.
_kill_application_name_first(params, ex, env) ==
    IF ~ex.process_manager THEN [result |-> "false", effects |-> <<>>]
    ELSE IF Truthy(params.name)
        THEN [result |-> env.handler,
              effects |-> << [method |-> "kill_process_by_name", arg |-> params.name] >>]
    ELSE IF Truthy(params.pid)
        THEN [result |-> env.handler,
              effects |-> << [method |-> "kill_process_by_pid", arg |-> params.pid] >>]
    ELSE IF Truthy(params.window_title)
        THEN [result |-> env.handler,
              effects |-> << [method |-> "kill_process_by_window_title",
                              arg |-> params.window_title] >>]
    ELSE [result |-> "false", effects |-> <<>>]

\* ActionExecutor._kill_application: the result and the process-manager
\* methods called.
_kill_application(params, ex, env) ==
    IF ~ex.process_manager THEN [result |-> "false", effects |-> <<>>]
    ELSE IF Truthy(params.pid)
        THEN [result |-> env.handler,
              effects |-> << [method |-> "kill_process_by_pid", arg |-> params.pid] >>]
    ELSE IF Truthy(params.name)
        THEN [result |-> env.handler,
              effects |-> << [method |-> "kill_process_by_name", arg |-> params.name] >>]
    ELSE IF Truthy(params.window_title)
        THEN [result |-> env.handler,
              effects |-> << [method |-> "kill_process_by_window_title",
                              arg |-> params.window_title] >>]
    ELSE [result |-> "false", effects |-> <<>>]

\* params.get('require_success', True)
require_success(params) ==
    IF params.require_success = AbsentV THEN TRUE ELSE Truthy(params.require_success)

\* An _execute_command that does not look at the exit code.
_execute_command_ignores_exit_code(params, env) ==
    IF params.command = AbsentV THEN [result |-> "false", effects |-> <<>>]
    ELSE [result |-> IF env.handler = "raise" THEN "false" ELSE "true",
          effects |-> << [method |-> "subprocess.run", arg |-> params.command] >>]

\* ActionExecutor._execute_command: subprocess.run raises (env.handler =
\* "raise") or returns with an exit code.
_execute_command(params, env) ==
    IF params.command = AbsentV THEN [result |-> "false", effects |-> <<>>]
    ELSE [result |-> IF env.handler = "raise" THEN "false"
                     ELSE IF require_success(params) /\ env.returncode # 0 THEN "false"
                     ELSE "true",
          effects |-> << [method |-> "subprocess.run", arg |-> params.command] >>]

\* The if/elif chain of execute(): the handler of the action type.
dispatch(action, ex, env) ==
    CASE action.type = "kill" -> _kill_application(action.params, ex, env)
      [] action.type = "execute_command" -> _execute_command(action.params, env)
      [] action.type \in {"launch", "wait", "notify"} ->
            [result |-> env.handler,
             effects |-> << [method |-> action.type, arg |-> AbsentV] >>]
      [] action.type \notin BuiltinTypes /\ action.type \in ex.custom_actions ->
            [result |-> env.handler,
             effects |-> << [method |-> action.type, arg |-> AbsentV] >>]
      [] OTHER -> [result |-> "false", effects |-> <<>>]

\* An execute() without its try/except.
ActionExecutor_execute_unguarded(action, ex, env) ==
    IF ~action.isdict \/ ~action.has_type THEN [result |-> "false", effects |-> <<>>]
    ELSE dispatch(action, ex, env)

\* ActionExecutor.execute
ActionExecutor_execute(action, ex, env) ==
    IF ~action.isdict \/ ~action.has_type THEN [result |-> "false", effects |-> <<>>]
    ELSE LET handled == dispatch(action, ex, env)
         IN  IF handled.result = "raise" THEN [handled EXCEPT !.result = "false"]
             ELSE handled

\* The executor as AppFlow or a test set it up: with or without a process
\* manager, with or without the custom action registered; done: the
\* execute() calls of the engine call in progress, each with its action,
\* what the world did, the result and the methods called.
ExecInit ==
    /\ \E a \in ExecActions :
           rules = << Rule("r1", TRUE, 5, <<>>, "all", << a, NotifyAction >>) >>
    /\ action_executor = TRUE
    /\ metrics \in { m \in MetricStates : m["cpu"] = IntV(70) }
    /\ call = NoCall
    /\ exe \in { [process_manager |-> b, custom_actions |-> cs, done |-> <<>>] :
                    b \in BOOLEAN, cs \in { {}, {"custom"} } }
    /\ PollIdle /\ EvalIdle /\ ApiIdle /\ TMIdle /\ MonIdle
    /\ net = NoNet /\ pm = NoPM /\ app = NoApp /\ SvcIdle

\* self.action_executor.execute(action, rule_id=rule.id) runs and returns.
ExecReturn ==
    /\ call.pc = "action"
    /\ \E env \in Environments :
        LET action == call.log[Len(call.log)].action
            r      == ActionExecutor_execute(action, exe, env)
        IN  /\ exe' = [exe EXCEPT !.done = Append(@, [action |-> action, env |-> env,
                                                    result |-> r.result,
                                                    effects |-> r.effects])]
            /\ IF r.result = "raise"
                   THEN call' = [call EXCEPT !.pc = "raised"]
               ELSE call' = after_action(call, r.result = "true")
    /\ UNCHANGED <<rules, action_executor, metrics>>

\* The caller has the result of the engine call.
ExecCallOver ==
    /\ CallOver
    /\ exe' = [exe EXCEPT !.done = <<>>]

ExecNext ==
    \/ ExecuteStart /\ UNCHANGED exe /\ UNCHANGED notExec
    \/ ActionStart /\ UNCHANGED exe /\ UNCHANGED notExec
    \/ ExecReturn /\ UNCHANGED notExec
    \/ RuleDone /\ UNCHANGED exe /\ UNCHANGED notExec
    \/ ExecuteReturn /\ UNCHANGED exe /\ UNCHANGED notExec
    \/ ExecCallOver /\ UNCHANGED notExec

SpecExec == ExecInit /\ [][ExecNext]_vars

---------------------------------------------------------------------------
(* Claims about the ActionExecutor *)

\* A parameter is given when its key is present with a value Python takes
\* as true: pid 0 and the empty string count as not given.
Given(v) == Truthy(v)

KillCall(method, arg) == << [method |-> method, arg |-> arg] >>

\* C24: with a process manager set, a kill action calls exactly one kill
\* method of the process manager: by pid when a pid is given, otherwise by
\* name when a name is given, otherwise by window title when one is given;
\* with none of the three it returns false and calls nothing.
C24_KillTarget ==
    \A i \in 1..Len(exe.done) :
        LET d == exe.done[i]
            p == d.action.params
        IN  (d.action.isdict /\ d.action.has_type /\ d.action.type = "kill"
             /\ exe.process_manager) =>
                IF Given(p.pid) THEN d.effects = KillCall("kill_process_by_pid", p.pid)
                ELSE IF Given(p.name) THEN d.effects = KillCall("kill_process_by_name", p.name)
                ELSE IF Given(p.window_title)
                    THEN d.effects = KillCall("kill_process_by_window_title", p.window_title)
                ELSE d.effects = <<>> /\ d.result = "false"

\* A kill action with a pid and a name went to kill_process_by_pid.
C24_Witness ==
    \E i \in 1..Len(exe.done) :
        /\ exe.done[i].action.type = "kill"
        /\ Given(exe.done[i].action.params.pid)
        /\ Given(exe.done[i].action.params.name)
        /\ exe.done[i].effects = KillCall("kill_process_by_pid", exe.done[i].action.params.pid)

\* An execute_command action whose command ran and exited.
CommandExited(d) ==
    /\ d.action.isdict /\ d.action.has_type /\ d.action.type = "execute_command"
    /\ d.action.params.command # AbsentV
    /\ d.env.handler # "raise"

\* C26: an execute_command action returns false when the exit code is not 0
\* and require_success is true or absent, and true for any exit code when
\* require_success is false; either way the rest of the rule's actions are
\* dispatched: the engine call returns after one execute() per action.
C26_CommandExitCode ==
    /\ \A i \in 1..Len(exe.done) :
           LET d == exe.done[i]
           IN  CommandExited(d) =>
                   /\ (d.action.params.require_success \in {AbsentV, BoolV(TRUE)}
                       /\ d.env.returncode # 0) => d.result = "false"
                   /\ d.action.params.require_success = BoolV(FALSE) => d.result = "true"
    /\ (call.pc = "returned" /\ Len(exe.done) > 0 /\ CommandExited(exe.done[1])) =>
           /\ Len(exe.done) = Len(call.matched[1].actions)
           /\ \A i \in 1..Len(exe.done) : exe.done[i].action = call.matched[1].actions[i]

\* A command failed with exit code 1 and the notify after it was dispatched.
C26_Witness ==
    /\ call.pc = "returned"
    /\ Len(exe.done) = 2
    /\ CommandExited(exe.done[1])
    /\ exe.done[1].env.returncode = 1
    /\ exe.done[1].result = "false"
    /\ exe.done[2].action = NotifyAction

\* C27: execute never raises; for an action that is no mapping, has no
\* 'type', or has a type that is neither built in nor a registered custom
\* action it returns false and calls nothing; an exception raised inside a
\* handler becomes the result false.
C27_ExecuteNeverRaises ==
    /\ call.pc # "raised"
    /\ \A i \in 1..Len(exe.done) :
           LET d == exe.done[i]
           IN  /\ d.result \in {"true", "false"}
               /\ ( \/ ~d.action.isdict
                    \/ ~d.action.has_type
                    \/ (d.action.type \notin BuiltinTypes
                        /\ d.action.type \notin exe.custom_actions) )
                      => (d.result = "false" /\ d.effects = <<>>)
               /\ (d.effects # <<>> /\ d.env.handler = "raise") => d.result = "false"

\* A handler raised and execute returned false; so did an unknown type.
C27_Witness ==
    /\ Len(exe.done) = 1
    /\ exe.done[1].effects # <<>>
    /\ exe.done[1].env.handler = "raise"
    /\ exe.done[1].action.type = "custom"
    /\ exe.done[1].result = "false"

---------------------------------------------------------------------------
(* Claims about the isolation of rules *)

\* How often the executor was called for the rule in this call.
CallsOf(id) ==
    Cardinality({ j \in 1..Len(call.log) : call.log[j].ev = "call" /\ call.log[j].rule = id })

InSeq(x, seq) == \E j \in 1..Len(seq) : seq[j] = x

\* C28: an exception raised while one rule is evaluated or dispatched stays
\* with that rule.  The matched list holds exactly the rules whose
\* evaluation returned true (a rule whose evaluation raised is left out, the
\* others are all evaluated); when execute_matched_rules returns, every
\* matched rule whose dispatch did not raise has had all its actions
\* dispatched, a rule whose dispatch raised was dispatched and is not
\* counted, and the count is that of the rules that did not raise.
C28_RuleIsolation ==
    /\ (call.pc \in {"evaluated", "rules", "action", "returned"} /\ Len(call.evaluated) > 0) =>
           \A k \in 1..Len(call.evaluated) :
               InSeq(call.evaluated[k], call.matched)
                   <=> Rule_evaluate(call.evaluated[k], call.context) = "true"
    /\ (call.pc = "returned" /\ action_executor) =>
           /\ \A m \in 1..Len(call.matched) :
                  IF InSeq(call.matched[m].id, call.raised)
                      THEN CallsOf(call.matched[m].id) >= 1
                  ELSE CallsOf(call.matched[m].id) = Len(call.matched[m].actions)
           /\ call.executed_count = Len(call.matched) - Len(call.raised)

\* The dispatch of the first matched rule raised and a later rule was
\* dispatched and counted, in a call that left out a rule whose evaluation
\* raised or matched several rules.
C28_Witness ==
    /\ call.pc = "returned"
    /\ Len(call.matched) >= 2
    /\ call.raised = << call.matched[1].id >>
    /\ call.executed_count >= 1
    /\ \E m \in 2..Len(call.matched) : CallsOf(call.matched[m].id) >= 1

\* The evaluation of one rule raised and another rule matched.
C28_EvaluationRaised ==
    /\ call.pc = "returned"
    /\ \E k \in 1..Len(call.evaluated) :
           Rule_evaluate(call.evaluated[k], call.context) = "raise"
    /\ Len(call.matched) >= 1

---------------------------------------------------------------------------
(* Claims about disabled rules *)

\* C29: a rule for which disable_rule returned True, and enable_rule was not
\* called since, is dispatched by no execute_matched_rules call that starts
\* afterwards, whichever job of the trigger manager makes the call; and a
\* call is not cut short by a disable_rule: when it returns, every rule it
\* matched has had all its actions dispatched.
C29_DisabledNotDispatched ==
    /\ \A j \in 1..Len(call.log) :
           call.log[j].ev = "call" => call.log[j].rule \notin api.barred
    /\ call.pc = "returned" =>
           \A m \in 1..Len(call.matched) :
               CallsOf(call.matched[m].id) = Len(call.matched[m].actions)

\* A call that started with one rule disabled has dispatched the other
\* rule, which was disabled while the call was in progress.
C29_Witness ==
    /\ call.pc = "returned"
    /\ api.barred # {}
    /\ \E m \in 1..Len(call.matched) :
           /\ call.matched[m].id \in api.disabled \ api.barred
           /\ Len(call.matched[m].actions) >= 1
           /\ CallsOf(call.matched[m].id) = Len(call.matched[m].actions)

---------------------------------------------------------------------------
(***************************************************************************)
(* AppFlow.initialize: the components are created and wired, then the      *)
(* default rules file is read and handed to the engine as                  *)
(* load_rules_from_yaml(yaml.dump(rules_content)).  A name the module      *)
(* neither imports nor defines raises NameError where it is evaluated.     *)
(***************************************************************************)

\* The global names of main/appflow.py: its imports (lines 7-26), its
\* logger and its class.
ModuleGlobals ==
    { "os", "sys", "logging", "argparse", "time", "signal", "threading",
      "Dict", "Any", "Optional", "List",
      "setup_logging", "ConfigLoader", "ProcessManager", "SystemMonitor",
      "RuleEngine", "ActionExecutor", "TriggerManager", "logger", "AppFlow" }

\* Evaluating a global name.
lookup(name) == IF name \in ModuleGlobals THEN "ok" ELSE "NameError"

\* ConfigLoader.load_rules_file: a file that is no valid YAML raises (kind
\* "raised"); one without a 'rules' section reads as {'rules': {}}.
load_rules_file(doc) ==
    CASE doc.kind = "invalid" -> [kind |-> "raised", entries |-> <<>>]
      [] doc.kind = "norules" -> [kind |-> "rules", entries |-> <<>>]
      [] OTHER -> doc

\* Lines 99-105 of initialize: the rule set afterwards and the error the
\* inner except has logged.
load_default_rules(current, doc) ==
    LET rules_content == load_rules_file(doc)
    IN  IF rules_content.kind = "raised" THEN [rules |-> current, error |-> "YAMLError"]
        ELSE IF lookup("yaml") # "ok" THEN [rules |-> current, error |-> "NameError"]
        ELSE [rules |-> load_rules_from_yaml(current, rules_content), error |-> "none"]

\* AppFlow.__init__, and the default rules file on disk.
AppInit ==
    /\ app \in { [pc |-> "new", file |-> doc, result |-> "none", error |-> "none"] :
                    doc \in Documents }
    /\ rules = <<>>
    /\ action_executor = FALSE
    /\ metrics \in MetricStates
    /\ call = NoCall
    /\ PollIdle /\ EvalIdle /\ ApiIdle /\ TMIdle /\ MonIdle
    /\ net = NoNet /\ pm = NoPM /\ exe = NoExe /\ SvcIdle

\* initialize, lines 65-89: configuration, components, wiring, providers.
AppWire ==
    /\ app.pc = "new"
    /\ action_executor' = TRUE
    /\ app' = [app EXCEPT !.pc = "wired"]
    /\ UNCHANGED <<rules, metrics, call>>

\* initialize, lines 91-105: the default rules.
AppLoadRules ==
    /\ app.pc = "wired"
    /\ LET loaded == load_default_rules(rules, app.file)
       IN  /\ rules' = loaded.rules
           /\ app' = [app EXCEPT !.pc = "loaded", !.error = loaded.error]
    /\ UNCHANGED <<action_executor, metrics, call>>

\* initialize, lines 107-108: return True
AppReturn ==
    /\ app.pc = "loaded"
    /\ app' = [app EXCEPT !.pc = "done", !.result = "true"]
    /\ UNCHANGED <<rules, action_executor, metrics, call>>

\* The engine is used: its rules are evaluated.
AppEvaluate ==
    /\ app.pc = "done"
    /\ EvaluateAllRules
    /\ UNCHANGED app

AppCallOver ==
    /\ app.pc = "done"
    /\ CallOver
    /\ UNCHANGED app

InitNext ==
    \/ AppWire /\ UNCHANGED notInit
    \/ AppLoadRules /\ UNCHANGED notInit
    \/ AppReturn /\ UNCHANGED notInit
    \/ AppEvaluate /\ UNCHANGED notInit
    \/ AppCallOver /\ UNCHANGED notInit

SpecInit == AppInit /\ [][InitNext]_vars

---------------------------------------------------------------------------
(* Claims about the start-up *)

\* C30: after initialize() has returned True with a valid default rules
\* file present, the engine's rule set is exactly the rules the file defines.
C30_RulesLoadedAtInit ==
    (app.pc = "done" /\ app.result = "true" /\ ~LoadFails(app.file)) =>
        rules = DefinedBy(app.file)

---------------------------------------------------------------------------
(***************************************************************************)
(* TriggerManager.start and stop, called one after the other from the      *)
(* controlling thread, with every scheduler thread they leave behind.      *)
(* A scheduler thread is at "loop" (asleep, or about to test               *)
(* "while self._running"), in "job" (inside run_pending, for as long as    *)
(* the job and the actions it dispatches take) or "exited".  The join of   *)
(* stop() ends when the thread has exited, or after two seconds: a thread  *)
(* at "loop" tests the flag within a second, so that the time-out is for   *)
(* a thread in a job only.                                                 *)
(***************************************************************************)

ThreadStates == {"loop", "job", "exited"}

\* Thread.is_alive of thread number i (0: no thread was ever started)
is_alive(threads, i) == i # 0 /\ threads[i] # "exited"

\* The threads that are executing _run_scheduler.
Alive(threads) == { i \in DOMAIN threads : threads[i] # "exited" }

\* start(), lines 60-78
TriggerManager_start(s) ==
    IF s.running THEN s
    ELSE IF ~s.rule_engine THEN s
    ELSE [s EXCEPT !.running = TRUE,
                   !.threads = Append(@, "loop"),
                   !.thread = Len(s.threads) + 1]

\* stop(), lines 80-95, up to the join
TriggerManager_stop(s) ==
    IF ~s.running THEN s
    ELSE [s EXCEPT !.running = FALSE,
                   !.pc = IF is_alive(s.threads, s.thread) THEN "joining" ELSE "idle",
                   !.stops = @ + 1]

SchedInit ==
    /\ sched \in { [pc |-> "idle", running |-> FALSE, rule_engine |-> e,
                    threads |-> <<>>, thread |-> 0, stops |-> 0, timeouts |-> 0] :
                     e \in BOOLEAN }
    /\ flow = NoFlow /\ srv = NoSrv /\ watch = NoWatch /\ cbk = NoCbk
    /\ PollIdle /\ EvalIdle /\ EngIdle /\ ApiIdle /\ TMIdle /\ MonIdle
    /\ net = NoNet /\ pm = NoPM /\ exe = NoExe /\ app = NoApp

SchedStart ==
    /\ sched.pc = "idle"
    /\ Len(sched.threads) < MaxThreads
    /\ sched' = TriggerManager_start(sched)

SchedStop ==
    /\ sched.pc = "idle"
    /\ sched.stops < MaxThreads
    /\ sched' = TriggerManager_stop(sched)

\* stop(), lines 89-94: join(timeout=2.0) is over, schedule.clear()
SchedJoin ==
    /\ sched.pc = "joining"
    /\ \/ /\ sched.threads[sched.thread] = "exited"
          /\ sched' = [sched EXCEPT !.pc = "idle"]
       \/ /\ sched.threads[sched.thread] = "job"
          /\ sched' = [sched EXCEPT !.pc = "idle", !.timeouts = @ + 1]

\* _run_scheduler, line 106: "while self._running", then run_pending
SchedLoop(i) ==
    /\ sched.threads[i] = "loop"
    /\ sched' = [sched EXCEPT !.threads[i] = IF sched.running THEN "job" ELSE "exited"]

\* _run_scheduler, lines 107-108: run_pending has returned, time.sleep(1)
SchedJobDone(i) ==
    /\ sched.threads[i] = "job"
    /\ sched' = [sched EXCEPT !.threads[i] = "loop"]

notSched == <<notSvc, flow, srv, watch, cbk>>

SchedNext ==
    \/ SchedStart /\ UNCHANGED notSched
    \/ SchedStop /\ UNCHANGED notSched
    \/ SchedJoin /\ UNCHANGED notSched
    \/ \E i \in 1..MaxThreads : i \in DOMAIN sched.threads /\ SchedLoop(i) /\ UNCHANGED notSched
    \/ \E i \in 1..MaxThreads : i \in DOMAIN sched.threads /\ SchedJobDone(i) /\ UNCHANGED notSched

SpecSched == SchedInit /\ [][SchedNext]_vars

---------------------------------------------------------------------------
(* Claims about the scheduler threads *)

\* C31: whatever start() and stop() calls were made, at most one thread is
\* executing _run_scheduler.
C31_OneSchedulerThread ==
    Cardinality(Alive(sched.threads)) <= 1

\* The same when no join has ever timed out.
C31_OneThreadWithoutTimeout ==
    sched.timeouts = 0 => Cardinality(Alive(sched.threads)) <= 1

\* Two threads are in the loop with the flag set: both go on.
C31_TwoLooping ==
    /\ sched.running
    /\ \E i, j \in DOMAIN sched.threads : i # j /\ sched.threads[i] = "loop" /\ sched.threads[j] = "loop"

---------------------------------------------------------------------------
(***************************************************************************)
(* AppFlow.start and stop, called one after the other, with the threads    *)
(* they start: the monitoring loop of SystemMonitor.start_monitoring, the  *)
(* watcher of ProcessManager.watch_process_changes and the scheduler of    *)
(* TriggerManager.start.  AppFlow.initialize has run: the components       *)
(* exist and the trigger manager has its rule engine.  config['network']   *)
(* is what the configuration file holds under that key: a mapping, with    *)
(* api_enabled true or false, or nothing ("network:" with no value loads   *)
(* as None, and load_config keeps any mapping the file holds).             *)
(* flow keeps, for the call in progress or the last one: op, ret,          *)
(* was_running (AppFlow.running when it was called), before (the           *)
(* components that were running then), started and stopped (what the call  *)
(* started and stopped); last_ok is the last call that returned True and   *)
(* refused the calls that returned at their guard.  monitors and watchers  *)
(* count the live threads of the two loops.                                *)
(***************************************************************************)

Networks == {"api_enabled", "api_disabled", "none"}

\* The background components with a live thread.
Components(f, s) ==
    (IF f.monitors > 0 THEN {"monitor"} ELSE {})
        \cup (IF f.watchers > 0 THEN {"watcher"} ELSE {})
        \cup (IF Alive(s.threads) # {} THEN {"scheduler"} ELSE {})

\* start(), lines 151-153, entered with the mutant's reading: no guard
begin_start_unguarded(f, s) ==
    [f EXCEPT !.pc = "start_mon", !.op = "start", !.ret = "none",
              !.was_running = f.running, !.before = Components(f, s),
              !.started = {}, !.stopped = {}]

\* start(), lines 151-156
begin_start(f, s) ==
    IF f.running
        THEN [f EXCEPT !.pc = "idle", !.op = "start", !.ret = "false",
                       !.was_running = TRUE, !.before = Components(f, s),
                       !.started = {}, !.stopped = {},
                       !.refused = @ \cup {"start"}]
    ELSE begin_start_unguarded(f, s)

\* stop(), lines 187-192
begin_stop(f, s) ==
    IF ~f.running
        THEN [f EXCEPT !.pc = "idle", !.op = "stop", !.ret = "false",
                       !.was_running = FALSE, !.before = Components(f, s),
                       !.started = {}, !.stopped = {},
                       !.refused = @ \cup {"stop"}]
    ELSE [f EXCEPT !.pc = "stop_tm", !.op = "stop", !.ret = "none",
                   !.was_running = TRUE, !.before = Components(f, s),
                   !.started = {}, !.stopped = {}]

FlowInit ==
    /\ flow \in { [pc |-> "idle", running |-> FALSE, network |-> n,
                   mon_running |-> FALSE, monitors |-> 0, watchers |-> 0,
                   polled |-> FALSE,
                   op |-> "none", ret |-> "none", was_running |-> FALSE,
                   before |-> {}, started |-> {}, stopped |-> {},
                   last_ok |-> "none", refused |-> {}] : n \in Networks }
    /\ sched = [pc |-> "idle", running |-> FALSE, rule_engine |-> TRUE,
                threads |-> <<>>, thread |-> 0, stops |-> 0, timeouts |-> 0]
    /\ srv = NoSrv /\ watch = NoWatch /\ cbk = NoCbk
    /\ PollIdle /\ EvalIdle /\ EngIdle /\ ApiIdle /\ TMIdle /\ MonIdle
    /\ net = NoNet /\ pm = NoPM /\ exe = NoExe /\ app = NoApp

\* AppFlow.start is called.
FlowStart ==
    /\ flow.pc = "idle"
    /\ flow.running \/ (Len(sched.threads) < MaxThreads /\ flow.watchers < MaxThreads)
    /\ flow' = begin_start(flow, sched)
    /\ UNCHANGED sched

\* start(), line 159: SystemMonitor.start_monitoring
FlowStartMonitoring ==
    /\ flow.pc = "start_mon"
    /\ flow' = IF flow.mon_running
                   THEN [flow EXCEPT !.pc = "start_watch"]
               ELSE [flow EXCEPT !.pc = "start_watch", !.mon_running = TRUE,
                                 !.monitors = @ + 1, !.started = @ \cup {"monitor"}]
    /\ UNCHANGED sched

\* start(), line 162: ProcessManager.watch_process_changes
FlowWatch ==
    /\ flow.pc = "start_watch"
    /\ flow' = [flow EXCEPT !.pc = "start_tm", !.watchers = @ + 1,
                            !.started = @ \cup {"watcher"}]
    /\ UNCHANGED sched

\* start(), line 165: TriggerManager.start
FlowStartTM ==
    /\ flow.pc = "start_tm"
    /\ sched' = TriggerManager_start(sched)
    /\ flow' = [flow EXCEPT !.pc = "start_api",
                            !.started = IF sched'.threads # sched.threads
                                            THEN @ \cup {"scheduler"} ELSE @]

\* start(), lines 168-178: the API server, and the return.  .get on a
\* network entry that is no mapping raises, and the except returns False.
FlowStartReturn ==
    /\ flow.pc = "start_api"
    /\ flow' = IF flow.network = "none"
                   THEN [flow EXCEPT !.pc = "idle", !.ret = "false"]
               ELSE [flow EXCEPT !.pc = "idle", !.ret = "true", !.running = TRUE,
                                 !.last_ok = "start"]
    /\ UNCHANGED sched

\* AppFlow.stop is called.
FlowStop ==
    /\ flow.pc = "idle"
    /\ flow' = begin_stop(flow, sched)
    /\ UNCHANGED sched

\* stop(), lines 194-196: TriggerManager.stop, up to its join
FlowStopTM ==
    /\ flow.pc = "stop_tm"
    /\ sched' = TriggerManager_stop(sched)
    /\ flow' = [flow EXCEPT !.pc = "stop_join",
                            !.stopped = IF sched.running THEN @ \cup {"scheduler"} ELSE @]

\* TriggerManager.stop: its join is over
FlowJoin ==
    /\ flow.pc = "stop_join"
    /\ SchedJoin
    /\ UNCHANGED flow

\* stop(), lines 198-200: SystemMonitor.stop_monitoring clears its flag
FlowStopMonitoring ==
    /\ flow.pc = "stop_join"
    /\ sched.pc = "idle"
    /\ flow' = IF flow.mon_running
                   THEN [flow EXCEPT !.pc = "stop_monjoin", !.mon_running = FALSE,
                                     !.stopped = @ \cup {"monitor"}]
               ELSE [flow EXCEPT !.pc = "stop_ret"]
    /\ UNCHANGED sched

\* stop_monitoring, lines 87-88: the monitoring thread is joined; an update
\* takes less than the two seconds of the join.
FlowMonitorJoin ==
    /\ flow.pc = "stop_monjoin"
    /\ flow.monitors = 0
    /\ flow' = [flow EXCEPT !.pc = "stop_ret"]
    /\ UNCHANGED sched

\* stop(), lines 202-207: _stop_api_server, running = False, return True
FlowStopReturn ==
    /\ flow.pc = "stop_ret"
    /\ flow' = [flow EXCEPT !.pc = "idle", !.ret = "true", !.running = FALSE,
                            !.last_ok = "stop"]
    /\ UNCHANGED sched

\* monitoring_loop, line 65: "while self._running" read as false
FlowMonitorExit ==
    /\ flow.monitors > 0
    /\ ~flow.mon_running
    /\ flow' = [flow EXCEPT !.monitors = @ - 1]
    /\ UNCHANGED sched

\* watcher, lines 388-425: "while True", one more round; polled turns
\* with every round of a watcher.
FlowWatcherRound ==
    /\ flow.watchers > 0
    /\ flow' = [flow EXCEPT !.polled = ~@]
    /\ UNCHANGED sched

\* A scheduler thread moves on.
FlowSchedLoop(i) == SchedLoop(i) /\ UNCHANGED flow

FlowSchedJobDone(i) == SchedJobDone(i) /\ UNCHANGED flow

notFlow == <<notSvc, srv, watch, cbk>>

FlowNext ==
    \/ FlowStart /\ UNCHANGED notFlow
    \/ FlowStartMonitoring /\ UNCHANGED notFlow
    \/ FlowWatch /\ UNCHANGED notFlow
    \/ FlowStartTM /\ UNCHANGED notFlow
    \/ FlowStartReturn /\ UNCHANGED notFlow
    \/ FlowStop /\ UNCHANGED notFlow
    \/ FlowStopTM /\ UNCHANGED notFlow
    \/ FlowJoin /\ UNCHANGED notFlow
    \/ FlowStopMonitoring /\ UNCHANGED notFlow
    \/ FlowMonitorJoin /\ UNCHANGED notFlow
    \/ FlowStopReturn /\ UNCHANGED notFlow
    \/ FlowMonitorExit /\ UNCHANGED notFlow
    \/ FlowWatcherRound /\ UNCHANGED notFlow
    \/ \E i \in 1..MaxThreads : i \in DOMAIN sched.threads /\ FlowSchedLoop(i) /\ UNCHANGED notFlow
    \/ \E i \in 1..MaxThreads : i \in DOMAIN sched.threads /\ FlowSchedJobDone(i) /\ UNCHANGED notFlow

SpecFlow == FlowInit /\ [][FlowNext]_vars

\* A call in progress goes on, every thread gets its turn, and a job that
\* is running ends.  Nothing obliges anybody to call start() or stop().
FlowFairness ==
    /\ WF_vars(FlowStartMonitoring /\ UNCHANGED notFlow)
    /\ WF_vars(FlowWatch /\ UNCHANGED notFlow)
    /\ WF_vars(FlowStartTM /\ UNCHANGED notFlow)
    /\ WF_vars(FlowStartReturn /\ UNCHANGED notFlow)
    /\ WF_vars(FlowStopTM /\ UNCHANGED notFlow)
    /\ WF_vars(FlowJoin /\ UNCHANGED notFlow)
    /\ WF_vars(FlowStopMonitoring /\ UNCHANGED notFlow)
    /\ WF_vars(FlowMonitorJoin /\ UNCHANGED notFlow)
    /\ WF_vars(FlowStopReturn /\ UNCHANGED notFlow)
    /\ WF_vars(FlowMonitorExit /\ UNCHANGED notFlow)
    /\ WF_vars(FlowWatcherRound /\ UNCHANGED notFlow)
    /\ \A i \in 1..MaxThreads :
           /\ WF_vars(i \in DOMAIN sched.threads /\ FlowSchedLoop(i) /\ UNCHANGED notFlow)
           /\ WF_vars(i \in DOMAIN sched.threads /\ FlowSchedJobDone(i) /\ UNCHANGED notFlow)

SpecFlowFair == FlowInit /\ [][FlowNext]_vars /\ FlowFairness

---------------------------------------------------------------------------
(* Claims about AppFlow.start and AppFlow.stop *)

\* stop() has returned True and start() was not called since.
Stopped == flow.pc = "idle" /\ flow.last_ok = "stop"

\* C32: once stop() has returned True, the scheduler, the monitoring loop
\* and the process watcher all terminate in the end (unless the application
\* is started again).
C32_LoopsTerminate ==
    Stopped ~> (~Stopped \/ Components(flow, sched) = {})

\* The scheduler and the monitoring loop do.
C32_FlaggedLoopsTerminate ==
    Stopped ~> (~Stopped \/ Components(flow, sched) \subseteq {"watcher"})

\* Start/stop cycles leave one watcher thread each.
C32_WatchersAccumulate ==
    Stopped /\ flow.watchers = MaxThreads

\* C33: when start() has failed part-way (False returned, running still
\* false), the running components are those that ran before the call.
C33_FailedStartRestores ==
    (flow.pc = "idle" /\ flow.op = "start" /\ flow.ret = "false" /\ ~flow.running) =>
        Components(flow, sched) = flow.before

\* C34: start() on a running application returns False and starts nothing,
\* stop() on one that is not running returns False and stops nothing, and
\* running is true exactly from a start() that returned True to the next
\* stop() that returned True.
C34_StartStopGuards ==
    /\ (flow.pc = "idle" /\ flow.op = "start" /\ flow.was_running) =>
           flow.ret = "false" /\ flow.started = {} /\ flow.stopped = {}
    /\ (flow.pc = "idle" /\ flow.op = "stop" /\ ~flow.was_running) =>
           flow.ret = "false" /\ flow.started = {} /\ flow.stopped = {}
    /\ flow.started # {} => flow.op = "start" /\ ~flow.was_running
    /\ flow.stopped # {} => flow.op = "stop" /\ flow.was_running
    /\ flow.running <=> flow.last_ok = "start"

\* Both calls have been refused once, the stop() after a start() and a
\* stop() that had returned True.
C34_Witness ==
    /\ flow.pc = "idle"
    /\ flow.refused = {"start", "stop"}
    /\ flow.op = "stop" /\ ~flow.was_running /\ flow.ret = "false"
    /\ flow.last_ok = "stop"
    /\ Components(flow, sched) # {}

---------------------------------------------------------------------------
(* Claims about the periodic system check *)

\* C35: one invocation of _check_system_triggers calls
\* execute_matched_rules at most once.
C35_OneCallPerSystemCheck ==
    tm.sys_calls <= 1

\* A system check that has returned after two calls, with the manager
\* running all along.
C35_TwoCallsReturned ==
    /\ running
    /\ tm.sys = "done"
    /\ tm.sys_calls = 2

---------------------------------------------------------------------------
(***************************************************************************)
(* GET /api/config (flask_server.py).  AppFlow.config is a mapping of      *)
(* mappings: the top level holds, under 'network', a reference to the      *)
(* network mapping, which lives in heap.  Every request passes             *)
(* before_request, which reads the stored api_key, and then the handler.   *)
(* srv keeps the key the configuration was loaded with (issued), the       *)
(* request that was served last and what was answered.                     *)
(***************************************************************************)

ApiKeys == {"key-a", "key-b"}

Mask == "********"

\* The network section of the configuration file: none, or a mapping with
\* or without api_key and require_auth.
NetworkSections ==
    [api_key : ApiKeys \cup {"absent"}, require_auth : {"true", "false", "absent"}]

\* The Authorization header of a request
NoHeader == <<"none", "none">>

Headers == {NoHeader} \cup { <<"Bearer", k>> : k \in ApiKeys \cup {Mask} }

\* dict.copy(): a new mapping with the same values, references included
dict_copy(d) == d

\* The mapping with the references followed, as jsonify writes it.
jsonify(heap, d) ==
    IF d.network = "absent" THEN [network |-> "absent"]
    ELSE [network |-> heap[d.network]]

\* before_request, lines 36-46: "pass" or 401
before_request(heap, config, header) ==
    LET network == IF config.network = "absent"
                       THEN [api_key |-> "absent", require_auth |-> "absent"]
                   ELSE heap[config.network]
    IN  IF network.require_auth = "false" THEN "pass"
        ELSE IF network.api_key = "absent" THEN "pass"
        ELSE IF header = <<"Bearer", network.api_key>> THEN "pass"
        ELSE "401"

\* get_config, lines 279-287: the heap after the call and the body returned
get_config(heap, config) ==
    LET config_copy == dict_copy(config)
        masked == IF config_copy.network # "absent" /\ heap[config_copy.network].api_key # "absent"
                      THEN [heap EXCEPT ![config_copy.network].api_key = Mask]
                  ELSE heap
    IN  [heap |-> masked, body |-> jsonify(masked, config_copy)]

ConfigInit ==
    /\ srv \in { [op |-> "none", config |-> [network |-> "n1"], heap |-> [n1 |-> n],
                  issued |-> n.api_key, header |-> NoHeader, status |-> 0,
                  body |-> "none", served |-> 0] : n \in NetworkSections }
             \cup { [op |-> "none", config |-> [network |-> "absent"],
                     heap |-> [n1 |-> [api_key |-> "absent", require_auth |-> "absent"]],
                     issued |-> "absent", header |-> NoHeader, status |-> 0,
                     body |-> "none", served |-> 0] }
    /\ sched = NoSched /\ flow = NoFlow /\ watch = NoWatch /\ cbk = NoCbk
    /\ PollIdle /\ EvalIdle /\ EngIdle /\ ApiIdle /\ TMIdle /\ MonIdle
    /\ net = NoNet /\ pm = NoPM /\ exe = NoExe /\ app = NoApp

\* GET /api/config with Authorization header h
GetConfig ==
    /\ srv.served < MaxRequests
    /\ \E h \in Headers :
        IF before_request(srv.heap, srv.config, h) = "401"
            THEN srv' = [srv EXCEPT !.op = "get_config", !.header = h, !.status = 401,
                                    !.body = "none", !.served = @ + 1]
        ELSE LET r == get_config(srv.heap, srv.config)
             IN  srv' = [srv EXCEPT !.op = "get_config", !.header = h, !.status = 200,
                                    !.heap = r.heap, !.body = r.body, !.served = @ + 1]

\* GET /api/status, a request that reads nothing of the configuration but
\* for the check of before_request
GetStatus ==
    /\ srv.served < MaxRequests
    /\ \E h \in Headers :
        srv' = [srv EXCEPT !.op = "status", !.header = h, !.body = "none",
                           !.status = IF before_request(srv.heap, srv.config, h) = "401"
                                          THEN 401 ELSE 200,
                           !.served = @ + 1]

notConfig == <<notSvc, sched, flow, watch, cbk>>

ConfigNext ==
    \/ GetConfig /\ UNCHANGED notConfig
    \/ GetStatus /\ UNCHANGED notConfig

SpecConfig == ConfigInit /\ [][ConfigNext]_vars

---------------------------------------------------------------------------
(* Claims about GET /api/config *)

\* C36: serving GET /api/config leaves the stored configuration as it was:
\* the api_key that later requests are checked against is the one the
\* configuration was loaded with.
C36_ConfigUnchanged ==
    srv.config.network # "absent" => srv.heap[srv.config.network].api_key = srv.issued

\* The copy returned is masked.
C36_ReturnedCopyMasked ==
    (srv.op = "get_config" /\ srv.status = 200 /\ srv.issued # "absent") =>
        srv.body.network.api_key = Mask

\* After a served GET /api/config, a request with the issued key is
\* refused.
C36_IssuedKeyRefused ==
    /\ srv.op = "status"
    /\ srv.issued # "absent"
    /\ srv.header = <<"Bearer", srv.issued>>
    /\ srv.status = 401

---------------------------------------------------------------------------
(***************************************************************************)
(* The context of the RuleEngine by itself: providers are registered one   *)
(* by one under a key (register_context_provider), each returns a value,   *)
(* returns None or raises, and get_current_context is called.  metrics     *)
(* holds, per registered key, what its provider does now.                  *)
(***************************************************************************)

ContextKeys == {"cpu", "memory", "battery"}

ProviderReturns == {IntV(70), NoneV, ProviderError}

ContextInit ==
    /\ rules = <<>>
    /\ action_executor = FALSE
    /\ metrics = <<>>
    /\ call = NoCall
    /\ PollIdle /\ EvalIdle /\ ApiIdle /\ TMIdle /\ MonIdle /\ RestIdle

\* register_context_provider(key, provider_function)
RegisterContextProvider ==
    /\ call.pc = "idle"
    /\ \E key \in ContextKeys, r \in ProviderReturns :
           metrics' = [k \in DOMAIN metrics \cup {key} |-> IF k = key THEN r ELSE metrics[k]]
    /\ UNCHANGED <<rules, action_executor, call>>

\* get_current_context()
GetCurrentContext ==
    /\ call.pc = "idle"
    /\ call' = [NoCall EXCEPT !.pc = "context", !.context = get_current_context(metrics)]
    /\ UNCHANGED <<rules, action_executor, metrics>>

\* The caller has the context.
ContextCallOver ==
    /\ call.pc = "context"
    /\ call' = NoCall
    /\ UNCHANGED <<rules, action_executor, metrics>>

ContextNext ==
    \/ RegisterContextProvider /\ UNCHANGED notEng
    \/ GetCurrentContext /\ UNCHANGED notEng
    \/ ContextCallOver /\ UNCHANGED notEng

SpecContext == ContextInit /\ [][ContextNext]_vars

---------------------------------------------------------------------------
(* Claims about the context *)

\* C37: a context returned by get_current_context has exactly the
\* registered keys; the key of a provider that raised holds None, and every
\* other key holds what its provider returned.
C37_ContextKeys ==
    call.pc = "context" =>
        /\ DOMAIN call.context = DOMAIN metrics
        /\ \A k \in DOMAIN metrics :
               call.context[k] = IF metrics[k] = ProviderError THEN NoneV ELSE metrics[k]

\* Three providers: the first raised, the second returned a number, the
\* third returned None.
C37_Witness ==
    /\ call.pc = "context"
    /\ DOMAIN metrics = ContextKeys
    /\ metrics["cpu"] = ProviderError /\ call.context["cpu"] = NoneV
    /\ call.context["memory"] = IntV(70)
    /\ metrics["battery"] = NoneV /\ call.context["battery"] = NoneV

---------------------------------------------------------------------------
(***************************************************************************)
(* The process watches of the SystemMonitor: watch_process registers a     *)
(* name with a trigger type and a callback, check_watched_processes looks  *)
(* every watched name up with ProcessManager.find_processes_by_name and    *)
(* compares with the state it recorded.  The process table changes         *)
(* between the calls.  watch keeps the table, _watched_processes           *)
(* (watched), and of a check that has just returned: the watches as they   *)
(* were before it (before) and the events its callbacks were called with   *)
(* (invoked).  An                                                          *)
(* entry is followed for its trigger_type, callback and running; the pids  *)
(* it also records are written and never read.                             *)
(***************************************************************************)

WatchedNames == { <<"a">>, <<"b">> }

TriggerTypes == {"start", "end", "any"}

\* watch_process, lines 375-391: the entry of a name after the call, or
\* raised when the lookup of line 377 raises
watch_entry(watched, table, name, trigger_type, callback) ==
    IF name \notin DOMAIN watched
        THEN LET currently_running == find_processes_by_name(table, name)
                 new == [trigger_type |-> trigger_type, callback |-> callback,
                         running |-> FALSE]
             IN  IF currently_running = "raise" THEN [raised |-> TRUE, entry |-> new]
                 ELSE [raised |-> FALSE,
                       entry |-> [new EXCEPT !.running = Len(currently_running) > 0]]
    ELSE [raised |-> FALSE,
          entry |-> [watched[name] EXCEPT !.trigger_type = trigger_type,
                                          !.callback = IF callback THEN TRUE ELSE @]]

\* check_watched_processes, lines 412-443, for one watched name: its entry
\* after the check and the event its callback was called with ("none": no
\* call).  A lookup that raises leaves the entry as it is.
check_one(config, found) ==
    IF found = "raise" THEN [config |-> config, event |-> "none"]
    ELSE LET was_running == config.running
             now_running == Len(found) > 0
             event_type  == IF now_running THEN "start" ELSE "end"
             calls       == /\ was_running # now_running
                            /\ config.trigger_type \in {"any", event_type}
                            /\ config.callback
         IN  [config |-> [config EXCEPT !.running = now_running],
              event  |-> IF calls THEN event_type ELSE "none"]

WatchInit ==
    /\ watch \in { [op |-> "none", table |-> t, watched |-> <<>>, before |-> <<>>,
                    invoked |-> {}, ret |-> "none"] : t \in ProcessTables }
    /\ sched = NoSched /\ flow = NoFlow /\ srv = NoSrv /\ cbk = NoCbk
    /\ PollIdle /\ EvalIdle /\ EngIdle /\ ApiIdle /\ TMIdle /\ MonIdle
    /\ net = NoNet /\ pm = NoPM /\ exe = NoExe /\ app = NoApp

\* watch_process(process_name, trigger_type, callback)
WatchProcess ==
    \E name \in WatchedNames, trigger_type \in TriggerTypes, callback \in BOOLEAN :
        LET r == watch_entry(watch.watched, watch.table, name, trigger_type, callback)
        IN  IF r.raised
                THEN watch' = [watch EXCEPT !.op = "watch", !.ret = "raise",
                                           !.before = <<>>, !.invoked = {}]
            ELSE watch' = [watch EXCEPT !.op = "watch", !.ret = "none",
                              !.before = <<>>, !.invoked = {},
                              !.watched = [n \in DOMAIN watch.watched \cup {name} |->
                                               IF n = name THEN r.entry ELSE watch.watched[n]]]

\* unwatch_process(process_name)
UnwatchProcess ==
    \E name \in DOMAIN watch.watched :
        watch' = [watch EXCEPT !.op = "unwatch", !.ret = "none",
                               !.before = <<>>, !.invoked = {},
                               !.watched = [n \in DOMAIN watch.watched \ {name} |-> watch.watched[n]]]

\* Processes start and end.
WatchTableChange ==
    \E t \in ProcessTables :
        /\ t # watch.table
        /\ watch' = [watch EXCEPT !.op = "table", !.table = t, !.ret = "none",
                                  !.before = <<>>, !.invoked = {}]

\* check_watched_processes()
CheckWatchedProcesses ==
    LET checked == [n \in DOMAIN watch.watched |->
                        check_one(watch.watched[n], find_processes_by_name(watch.table, n))]
    IN  watch' = [watch EXCEPT !.op = "check", !.ret = "none",
                               !.before = watch.watched,
                               !.watched = [n \in DOMAIN watch.watched |-> checked[n].config],
                               !.invoked = { [process_name |-> n, event_type |-> checked[n].event] :
                                               n \in { m \in DOMAIN watch.watched :
                                                         checked[m].event # "none" } }]

notWatch == <<notSvc, sched, flow, srv, cbk>>

WatchNext ==
    \/ WatchProcess /\ UNCHANGED notWatch
    \/ UnwatchProcess /\ UNCHANGED notWatch
    \/ WatchTableChange /\ UNCHANGED notWatch
    \/ CheckWatchedProcesses /\ UNCHANGED notWatch

SpecWatch == WatchInit /\ [][WatchNext]_vars

---------------------------------------------------------------------------
(* Claims about the process watches *)

\* Whether a process whose name contains the watched name is running.
NowRunning(table, name) == Matching(table, name) # {}

\* C38: a check calls the callback of a watch only when the running state
\* of its process differs from the state recorded by the check before
\* ('start' when it runs now, 'end' when it does not) and the trigger type
\* is 'any' or the event; it calls none when the state is unchanged; and it
\* records the current state of every watch.
C38_WatchCallbacks ==
    watch.op = "check" =>
        \A n \in DOMAIN watch.before :
            LET was == watch.before[n].running
                now == NowRunning(watch.table, n)
            IN  /\ \A e \in watch.invoked :
                       e.process_name = n =>
                           /\ was # now
                           /\ e.event_type = (IF now THEN "start" ELSE "end")
                           /\ watch.before[n].trigger_type \in {"any", e.event_type}
                /\ watch.watched[n].running = now

\* The part about the callbacks alone.
C38_CallbackOnlyOnChange ==
    watch.op = "check" =>
        \A e \in watch.invoked :
            LET n   == e.process_name
                was == watch.before[n].running
                now == NowRunning(watch.table, n)
            IN  /\ was # now
                /\ e.event_type = (IF now THEN "start" ELSE "end")
                /\ watch.before[n].trigger_type \in {"any", e.event_type}

\* The whole claim when every process name can be read.
C38_WhenNamesReadable ==
    (\A k \in 1..Len(watch.table) : watch.table[k] # NoName) => C38_WatchCallbacks

\* A check has left a watch recorded as not running while its process runs.
C38_StaleState ==
    /\ watch.op = "check"
    /\ \E n \in DOMAIN watch.watched :
           /\ ~watch.watched[n].running
           /\ NowRunning(watch.table, n)

\* A check has called a 'start' callback.
C38_StartSeen ==
    /\ watch.op = "check"
    /\ \E e \in watch.invoked : e.event_type = "start"

---------------------------------------------------------------------------
(***************************************************************************)
(* The metric callbacks of the SystemMonitor: register_metric_callback     *)
(* appends a callback with its threshold (None: no threshold) to the list  *)
(* of a metric, and every _update_metrics ends with                        *)
(* _trigger_metric_callbacks.  cbk keeps the registrations in the order    *)
(* they were made (callbacks), the metrics the last update wrote and the   *)
(* registrations whose callback that update called (invoked).              *)
(***************************************************************************)

MetricNames == {"cpu", "memory", "battery", "network", "disk"}

Thresholds == {NoneV, IntV(50)}

\* What an update can write: below and above the threshold for each
\* metric, no battery, no partition.
MetricsWritten ==
    [cpu : {10, 90}, memory : {10, 90}, battery : {NoneV, IntV(10), IntV(90)},
     network : { [sent_rate |-> 0, recv_rate |-> 0], [sent_rate |-> 100, recv_rate |-> 0],
                 [sent_rate |-> 0, recv_rate |-> 100] },
     disk : { {}, {10}, {10, 90} }]

\* _trigger_metric_callbacks, lines 232-256: should_call
should_call(metric_name, threshold, m) ==
    IF threshold = NoneV THEN TRUE
    ELSE IF metric_name = "cpu" THEN m.cpu > threshold.n
    ELSE IF metric_name = "memory" THEN m.memory > threshold.n
    ELSE IF metric_name = "battery" /\ m.battery # NoneV THEN m.battery.n < threshold.n
    ELSE IF metric_name = "network"
        THEN m.network.sent_rate > threshold.n \/ m.network.recv_rate > threshold.n
    ELSE IF metric_name = "disk" THEN \E percent \in m.disk : percent > threshold.n
    ELSE TRUE

\* _trigger_metric_callbacks: the registrations whose callback is called
_trigger_metric_callbacks(callbacks, m) ==
    { i \in 1..Len(callbacks) :
        should_call(callbacks[i].metric_name, callbacks[i].threshold, m) }

CallbackInit ==
    /\ cbk = [op |-> "none", callbacks |-> <<>>,
              metrics |-> [cpu |-> 0, memory |-> 0, battery |-> NoneV,
                           network |-> [sent_rate |-> 0, recv_rate |-> 0], disk |-> {}],
              invoked |-> {}]
    /\ sched = NoSched /\ flow = NoFlow /\ srv = NoSrv /\ watch = NoWatch
    /\ PollIdle /\ EvalIdle /\ EngIdle /\ ApiIdle /\ TMIdle /\ MonIdle
    /\ net = NoNet /\ pm = NoPM /\ exe = NoExe /\ app = NoApp

\* register_metric_callback(metric_name, callback, threshold)
RegisterMetricCallback ==
    /\ Len(cbk.callbacks) < MaxCallbacks
    /\ \E metric_name \in MetricNames, threshold \in Thresholds :
           cbk' = [cbk EXCEPT !.op = "register", !.invoked = {},
                              !.callbacks = Append(@, [metric_name |-> metric_name,
                                                       threshold |-> threshold])]

\* _update_metrics: the metrics are written and the callbacks triggered.
UpdateMetrics ==
    \E m \in MetricsWritten :
        cbk' = [cbk EXCEPT !.op = "update", !.metrics = m,
                           !.invoked = _trigger_metric_callbacks(cbk.callbacks, m)]

notCallback == <<notSvc, sched, flow, srv, watch>>

CallbackNext ==
    \/ RegisterMetricCallback /\ UNCHANGED notCallback
    \/ UpdateMetrics /\ UNCHANGED notCallback

SpecCallback == CallbackInit /\ [][CallbackNext]_vars

---------------------------------------------------------------------------
(* Claims about the metric callbacks *)

\* Whether a metric is beyond a threshold: cpu, memory, a network rate and
\* some disk above it, the battery below it.
Beyond(metric_name, t, m) ==
    CASE metric_name = "cpu" -> m.cpu > t
      [] metric_name = "memory" -> m.memory > t
      [] metric_name = "battery" -> m.battery # NoneV /\ m.battery.n < t
      [] metric_name = "network" -> m.network.sent_rate > t \/ m.network.recv_rate > t
      [] metric_name = "disk" -> \E percent \in m.disk : percent > t

\* C39: after an update, a callback registered with a threshold has been
\* called only if its metric is beyond the threshold, and a callback
\* registered without one has been called.
C39_CallbackThresholds ==
    cbk.op = "update" =>
        \A i \in 1..Len(cbk.callbacks) :
            LET cb == cbk.callbacks[i]
            IN  IF cb.threshold = NoneV THEN i \in cbk.invoked
                ELSE i \in cbk.invoked => Beyond(cb.metric_name, cb.threshold.n, cbk.metrics)

\* The same for the machines that have a battery.
C39_WithBattery ==
    (cbk.op = "update" /\ cbk.metrics.battery # NoneV) => C39_CallbackThresholds

\* With a threshold, the callback is called whenever the metric is beyond it.
C39_CalledWhenBeyond ==
    cbk.op = "update" =>
        \A i \in 1..Len(cbk.callbacks) :
            LET cb == cbk.callbacks[i]
            IN  (cb.threshold # NoneV /\ Beyond(cb.metric_name, cb.threshold.n, cbk.metrics))
                    => i \in cbk.invoked

\* A battery callback with a threshold was called on a machine that has no
\* battery.
C39_CalledWithoutBattery ==
    /\ cbk.op = "update"
    /\ cbk.metrics.battery = NoneV
    /\ \E i \in cbk.invoked :
           cbk.callbacks[i].metric_name = "battery" /\ cbk.callbacks[i].threshold # NoneV

---------------------------------------------------------------------------
(* Claims about rules of equal priority *)

\* The place of rule id in a list of rules (0: not there).
PlaceOf(id, rs) ==
    IF \E i \in 1..Len(rs) : rs[i].id = id
        THEN CHOOSE i \in 1..Len(rs) : rs[i].id = id
    ELSE 0

\* C40: matched rules of equal priority are returned, and so dispatched, in
\* the order they have in the rule set.
C40_TiesInLoadOrder ==
    call.pc # "idle" =>
        \A k1, k2 \in 1..Len(call.matched) :
            ( k1 < k2 /\ call.matched[k1].priority = call.matched[k2].priority ) =>
                PlaceOf(call.matched[k1].id, call.evaluated)
                    < PlaceOf(call.matched[k2].id, call.evaluated)

\* Rules loaded with priorities 5, 8, 5, all matching: the second first,
\* then the first and the third, and dispatched so.
C40_Witness ==
    /\ call.pc = "returned"
    /\ Len(call.evaluated) = 3
    /\ [i \in 1..3 |-> call.evaluated[i].priority] = <<5, 8, 5>>
    /\ [i \in 1..Len(call.matched) |-> call.matched[i].id] = <<RuleId(2), RuleId(1), RuleId(3)>>
    /\ call.executed_count = 3

=============================================================================
